---- MODULE Spec2Model ----
(***************************************************************************)
(* Key rotation, exhaustion and recovery of the AI Telegram bot:           *)
(* ApiKeyManager (src/api_manager.py), the api_keys table of Database      *)
(* (src/database.py), AiClient.stream_response (src/ai_client.py) and the  *)
(* admin key toggles (src/handlers/admin.py).                              *)
(* Further down: the dispatcher with its middlewares                       *)
(* (src/middlewares.py) and the handlers of the admin router, the          *)
(* messages table, and the pure functions of src/ai_client.py.             *)
(*                                                                         *)
(* Every await of the code is a step boundary: a mark_* call updates the   *)
(* in-memory KeyState, awaits the store and only then releases the         *)
(* provider's lock; the recovery loop updates the store outside the lock   *)
(* and the memory under it.  Store operations are assumed to succeed.      *)
(***************************************************************************)
EXTENDS Integers, Sequences, FiniteSets, TLC

\* ---------------------------------------------------------------- bounds
\* The clock counts ticks: time.time() is read to the tick, datetime('now')
\* of the store only to the whole second.
TicksPerSecond == 2
\* length of a minute in seconds, scaled down
SecondsPerMinute == 1
\* KEY_COOLDOWN_MINUTES of the environment
key_cooldown_minutes == 1
\* ticks the clock advances after boot
MaxElapsed == 2
\* process restarts
MaxRestarts == 1
\* chat requests (stream_response calls) and admin key toggles, next to the
\* recovery loop
MaxCalls == 1
MaxToggles == 1
\* the same, with the clock standing still
ClientCalls == 1
ClientToggles == 1
\* mark_* calls next to the direct get_key calls
RRMarks == 2
\* the same, with one configured key
ShortCalls == 2
ShortToggles == 1
\* stream_response calls and admin key toggles under fair scheduling
LiveCalls == 1
LiveToggles == 1
\* stream_response calls and admin key toggles next to the recovery loop,
\* with the clock standing still
LockCalls == 1
LockToggles == 1
\* successful get_key calls per provider that are counted
MaxAcquisitions == 4
\* ticks time.monotonic() advances after the bot started polling
MaxMonoElapsed == 2
\* users a /broadcast goes to
MaxRecipients == 27
\* rows of the messages table, and the limit of a get_context call
MaxStored == 3
MaxLimit == 2
\* turns of a conversation handed to the Gemini conversion
MaxTurns == 4
\* pieces an error payload is made of
MaxChunks == 2
\* messages counted per user
MaxMessages == 1
\* length of a day in seconds, scaled down, and rows of messages next to the
\* stats refresh
SecondsPerDay == 1
MaxStatRows == 2
\* fragments one answer streams in, and ticks the clock moves while a chat
\* message is handled
MaxFragments == 2
MaxChatElapsed == 3
\* times a key is marked exhausted from the admin panel
MaxExhaustions == 2

\* ------------------------------------------------------- program constants
max_key_attempts == 5
max_retries == 3

ProviderOrder == <<"openrouter", "gemini">>
Providers == {"openrouter", "gemini"}

\* the stream_response calls in progress: one chat request at a time
Requests == {"r1"}

NULL == -1

SeqRange(s) == {s[i] : i \in 1..Len(s)}

\* a configuration: the hashes of the configured raw keys, per provider, in
\* the order of OPENROUTER_KEYS / GEMINI_KEYS
KeysOf(cfg) == UNION {SeqRange(cfg[p]) : p \in Providers}

\* cooldown * 60 of the recovery loop, in ticks
cooldown_sec(cooldown) == cooldown * SecondsPerMinute * TicksPerSecond

\* time.time() at boot is epoch time, further from 0.0 than any cooldown, and
\* not a whole second
BootTime == 2 * cooldown_sec(key_cooldown_minutes) + 1

\* datetime('now'): the current time to the whole second
DbNow(t) == t - (t % TicksPerSecond)

\* ------------------------------------------------------------------ state
VARIABLES
  config,         \* Config.api: provider -> key hashes, never changed
  now,            \* wall clock, in ticks
  keys,           \* ApiKeyManager._keys: provider -> sequence of KeyState
  current_index,  \* ApiKeyManager._current_index
  locks,          \* ApiKeyManager._locks: "free" or the holder
  api_keys,       \* table api_keys: key_hash -> row
  req,            \* the stream_response calls
  admin,          \* the admin key-toggle callback in progress
  rec,            \* the recovery loop task
  restarts,       \* restarts so far
  budget,         \* stream_response calls and admin toggles still to come
  hist,           \* history per key hash, for stating properties only
  acqLog,         \* keys returned by direct get_key calls since the last
                  \* status change, per provider
  users,          \* table users: user_id -> row
  upd,            \* the update in the dispatcher's pipeline, and what became of it
  mono,           \* time.monotonic(), in ticks
  user_last,      \* ThrottleMiddleware._user_last
  bc,             \* the /broadcast in progress
  fn,             \* a pure function's argument and result
  fwd,            \* history: user -> when the throttle last passed a message
                  \* of the user on, for stating properties only
  messages,       \* table messages, in the order of the ids
  bot_stats       \* table bot_stats, in the order of the ids

\* dispatcher, middlewares and admin commands
botVars == <<users, upd, mono, user_last, bc, fn, fwd, messages, bot_stats>>

\* key manager, store of the keys and stream_response
keyVars == <<config, now, keys, current_index, locks, api_keys, req, admin, rec, restarts, budget, hist, acqLog>>

vars == <<config, now, keys, current_index, locks, api_keys, req, admin, rec, restarts, budget, hist, acqLog,
          users, upd, mono, user_last, bc, fn, fwd, messages, bot_stats>>

\* ------------------------------------------------------- store operations
\* an UPDATE without its WHERE clause
increment_key_requests_EveryRow(tbl, h) ==
  [x \in DOMAIN tbl |-> [tbl[x] EXCEPT !.total_requests = @ + 1]]

increment_key_requests(tbl, h) ==
  IF h \notin DOMAIN tbl THEN tbl
  ELSE [tbl EXCEPT ![h].total_requests = @ + 1]

NewRow(p) ==
  [provider |-> p, status |-> "active", last_exhausted |-> NULL, total_requests |-> 0,
   exhausted_count |-> 0]

upsert_api_key(tbl, p, h) ==
  IF h \in DOMAIN tbl THEN tbl
  ELSE [x \in (DOMAIN tbl) \cup {h} |-> IF x = h THEN NewRow(p) ELSE tbl[x]]

update_key_status(tbl, h, status, t) ==
  IF h \notin DOMAIN tbl THEN tbl
  ELSE IF status = "exhausted"
       THEN [tbl EXCEPT ![h].status = status, ![h].last_exhausted = DbNow(t),
                        ![h].exhausted_count = @ + 1]
       ELSE [tbl EXCEPT ![h].status = status]

\* rows that reset_exhausted_keys updates
ResetRows(tbl, p, cooldown, t) ==
  {h \in DOMAIN tbl : /\ tbl[h].provider = p
                      /\ tbl[h].status = "exhausted"
                      /\ tbl[h].last_exhausted # NULL
                      /\ t - tbl[h].last_exhausted >= cooldown * SecondsPerMinute * TicksPerSecond}

reset_exhausted_keys(tbl, p, cooldown, t) ==
  [h \in DOMAIN tbl |-> IF h \in ResetRows(tbl, p, cooldown, t)
                        THEN [tbl[h] EXCEPT !.status = "active"]
                        ELSE tbl[h]]

SetMin(S) == CHOOSE x \in S : \A y \in S : x <= y

get_earliest_exhausted_recovery(tbl, p, cooldown) ==
  LET due == {tbl[h].last_exhausted + cooldown * SecondsPerMinute * TicksPerSecond :
                h \in {x \in DOMAIN tbl : /\ tbl[x].provider = p
                                          /\ tbl[x].status = "exhausted"
                                          /\ tbl[x].last_exhausted # NULL}}
  IN IF due = {} THEN NULL ELSE SetMin(due)

\* ------------------------------------------------- key manager operations
KeyState(h) == [key_hash |-> h, status |-> "active", last_exhausted |-> 0]

RECURSIVE UpsertAll(_, _, _)
UpsertAll(tbl, p, hs) ==
  IF hs = << >> THEN tbl
  ELSE UpsertAll(upsert_api_key(tbl, p, Head(hs)), p, Tail(hs))

\* the store after the two upsert loops of initialize
InitializeStore(cfg, tbl) ==
  UpsertAll(UpsertAll(tbl, "openrouter", cfg["openrouter"]),
            "gemini", cfg["gemini"])

\* _keys after initialize: fresh KeyStates, status taken from the store's
\* rows of the same provider
InitializeKeys(cfg, tbl) ==
  [p \in Providers |->
     [i \in 1..Len(cfg[p]) |->
        LET h == cfg[p][i]
        IN IF h \in DOMAIN tbl /\ tbl[h].provider = p
           THEN [KeyState(h) EXCEPT !.status = tbl[h].status]
           ELSE KeyState(h)]]

\* a lock that anyone enters at any time
Unlocked_NoLock(p) == TRUE

\* async with self._locks[provider]: the lock is free to be taken
Unlocked(p) == locks[p] = "free"

ActiveKeys(ks) == SelectSeq(ks, LAMBDA k : k.status = "active")

\* a check that is content with any configured key
has_active_keys_AnyKey(p) == keys[p] # << >>

has_active_keys(p) == ActiveKeys(keys[p]) # << >>

\* get_key that falls back to the first key when none is active
get_key_AnyKey(ks, index) ==
  LET active_keys == ActiveKeys(ks)
      idx == index % Len(active_keys)
  IN IF ks = << >> THEN [key |-> 0, index |-> index]
     ELSE IF active_keys = << >> THEN [key |-> ks[1].key_hash, index |-> index]
     ELSE [key |-> active_keys[idx + 1].key_hash, index |-> idx + 1]

\* get_key that leaves the rotation index where it was
get_key_NoAdvance(ks, index) ==
  LET active_keys == ActiveKeys(ks)
      idx == index % Len(active_keys)
  IN IF ks = << >> \/ active_keys = << >>
     THEN [key |-> 0, index |-> index]
     ELSE [key |-> active_keys[idx + 1].key_hash, index |-> idx]

\* get_key with an index that runs on and is reduced only to pick the key
get_key_RunningCounter(ks, index) ==
  LET active_keys == ActiveKeys(ks)
      idx == index % Len(active_keys)
  IN IF ks = << >> \/ active_keys = << >>
     THEN [key |-> 0, index |-> index]
     ELSE [key |-> active_keys[idx + 1].key_hash, index |-> index + 1]

\* get_key on the provider's KeyStates ks and rotation index: the hash of the
\* key returned (0 for None) and the rotation index afterwards
get_key(ks, index) ==
  LET active_keys == ActiveKeys(ks)
      idx == index % Len(active_keys)
  IN IF ks = << >> \/ active_keys = << >>
     THEN [key |-> 0, index |-> index]
     ELSE [key |-> active_keys[idx + 1].key_hash, index |-> idx + 1]

\* record_usage: the store's request counter of the key
record_usage(tbl, h) == increment_key_requests(tbl, h)

\* position of the first KeyState with this hash, 0 when there is none
FirstMatch(ks, h) ==
  IF \E i \in 1..Len(ks) : ks[i].key_hash = h
  THEN CHOOSE i \in 1..Len(ks) :
         /\ ks[i].key_hash = h
         /\ \A j \in 1..(i - 1) : ks[j].key_hash # h
  ELSE 0

\* a mark that does not stop at the key with the hash
MarkMem_EveryKey(ks, h, status, t) ==
  [i \in 1..Len(ks) |->
     IF status = "exhausted"
     THEN [ks[i] EXCEPT !.status = status, !.last_exhausted = t]
     ELSE [ks[i] EXCEPT !.status = status]]

\* the in-memory half of mark_exhausted / mark_error / mark_active
MarkMem(ks, h, status, t) ==
  LET i == FirstMatch(ks, h)
  IN IF i = 0 THEN ks
     ELSE IF status = "exhausted"
          THEN [ks EXCEPT ![i].status = status, ![i].last_exhausted = t]
          ELSE [ks EXCEPT ![i].status = status]

\* the in-memory half of one recovery-loop iteration
RecoverMem(ks, cooldown, t) ==
  [i \in 1..Len(ks) |->
     IF ks[i].status = "exhausted" /\ (t - ks[i].last_exhausted) >= cooldown_sec(cooldown)
     THEN [ks[i] EXCEPT !.status = "active"]
     ELSE ks[i]]

\* provider of the first entry of get_all_keys_status with this hash
TargetProvider(h) ==
  IF FirstMatch(keys["openrouter"], h) # 0 THEN "openrouter" ELSE "gemini"

\* in-memory status of the key with this hash
MemStatus(h) == keys[TargetProvider(h)][FirstMatch(keys[TargetProvider(h)], h)].status

\* ------------------------------------------------------- stream_response
IdleReq ==
  [pc |-> "idle", provider |-> "openrouter", attempt |-> 0, key |-> 0,
   retry |-> 0, collected |-> FALSE, http |-> 0,
   acquired |-> 0, signal |-> "none", result |-> "none",
   recovery |-> NULL, yielded |-> FALSE]

\* what one POST of a provider call can end in: fragments or none, then the
\* end of the stream, a classified error, an unclassified error, a 5xx
\* status, a connection error or the session timeout
Ends == {"ok", "exhausted", "auth", "aierror", "server", "conn", "timeout"}
Responses == {r \in [chunks : BOOLEAN, end : Ends] : ~(r.chunks /\ r.end = "server")}

\* the responses that end in a verdict on the key, or in success
KeyResponses == {r \in Responses : r.end \in {"ok", "exhausted", "auth"}}

\* a retry loop that allows one request more
ProviderCallSignal_OneMore(end, retry) ==
  CASE end = "ok"        -> "Return"
    [] end = "exhausted" -> "KeyExhaustedException"
    [] end = "auth"      -> "KeyAuthError"
    [] end = "aierror"   -> "AiError"
    [] end = "timeout"   -> "TimeoutError"
    [] OTHER             -> IF retry < max_retries THEN "retry" ELSE "ServerError"

\* what _stream_openrouter / _stream_gemini do at the end of a POST
ProviderCallSignal(end, retry) ==
  CASE end = "ok"        -> "Return"
    [] end = "exhausted" -> "KeyExhaustedException"
    [] end = "auth"      -> "KeyAuthError"
    [] end = "aierror"   -> "AiError"
    [] end = "timeout"   -> "TimeoutError"
    [] OTHER             -> IF retry < max_retries - 1 THEN "retry" ELSE "ServerError"

\* except clauses without the one for KeyAuthError
Handler_AuthFails(signal) ==
  CASE signal = "Return"                -> "return"
    [] signal = "KeyExhaustedException" -> "mark_exhausted"
    [] signal = "ServerError"           -> "sleep"
    [] signal = "TimeoutError"          -> "raise_timeout"
    [] OTHER                            -> "propagate"

\* except clauses that treat the timeout like a ServerError
Handler_TimeoutRetries(signal) ==
  CASE signal = "Return"                -> "return"
    [] signal = "KeyExhaustedException" -> "mark_exhausted"
    [] signal = "KeyAuthError"          -> "mark_error"
    [] signal = "ServerError"           -> "sleep"
    [] signal = "TimeoutError"          -> "sleep"
    [] OTHER                            -> "propagate"

\* except clauses with one for AiError that goes on to the next attempt
Handler_AiErrorRotates(signal) ==
  CASE signal = "Return"                -> "return"
    [] signal = "KeyExhaustedException" -> "mark_exhausted"
    [] signal = "KeyAuthError"          -> "mark_error"
    [] signal = "ServerError"           -> "sleep"
    [] signal = "TimeoutError"          -> "raise_timeout"
    [] OTHER                            -> "mark_exhausted"

\* the except clauses of stream_response
Handler(signal) ==
  CASE signal = "Return"                -> "return"
    [] signal = "KeyExhaustedException" -> "mark_exhausted"
    [] signal = "KeyAuthError"          -> "mark_error"
    [] signal = "ServerError"           -> "sleep"
    [] signal = "TimeoutError"          -> "raise_timeout"
    [] OTHER                            -> "propagate"

\* a loop that gives up after the first attempt
NextAttempt_GiveUp(rq) ==
  [rq EXCEPT !.attempt = @ + 1, !.pc = "raise_all", !.signal = "none"]

\* a loop over the attempts that never runs out
NextAttempt_Unbounded(rq) ==
  [rq EXCEPT !.attempt = IF @ + 1 < max_key_attempts THEN @ + 1 ELSE @,
             !.pc = "get_key", !.signal = "none"]

\* continue: the next iteration of for attempt in range(max_key_attempts)
NextAttempt(rq) ==
  IF rq.attempt + 1 < max_key_attempts
  THEN [rq EXCEPT !.attempt = @ + 1, !.pc = "get_key", !.signal = "none"]
  ELSE [rq EXCEPT !.attempt = @ + 1, !.pc = "raise_all", !.signal = "none"]

ReqStart(r, p) ==
  /\ req[r].pc = "idle"
  /\ budget.calls > 0
  /\ budget' = [budget EXCEPT !.calls = @ - 1]
  /\ req' = [req EXCEPT ![r] = [IdleReq EXCEPT !.pc = "get_key", !.provider = p]]
  /\ UNCHANGED <<config, now, keys, current_index, locks, api_keys, admin, rec, restarts, hist, acqLog, botVars>>

\* get_key, under the provider's lock
ReqGetKey(r) ==
  LET p == req[r].provider
      got == get_key(keys[p], current_index[p])
  IN /\ req[r].pc = "get_key"
     /\ Unlocked(p)
     /\ current_index' = [current_index EXCEPT ![p] = got.index]
     /\ req' = [req EXCEPT ![r] =
          IF got.key = 0
          THEN [@ EXCEPT !.pc = "raise_all"]
          ELSE [@ EXCEPT !.pc = "post", !.key = got.key, !.retry = 0,
                         !.collected = FALSE, !.acquired = @ + 1]]
     /\ UNCHANGED <<config, now, keys, locks, api_keys, admin, rec, restarts, budget, hist, acqLog, botVars>>

\* one POST of the provider call, answered by resp, and what stream_response
\* does with its end; yielded keeps, for the whole call, whether the caller
\* has received a fragment
ReqPost(r, resp) ==
  LET signal == ProviderCallSignal(resp.end, req[r].retry)
      seen == [req[r] EXCEPT !.http = @ + 1, !.collected = @ \/ resp.chunks,
                             !.yielded = @ \/ resp.chunks]
      h == Handler(signal)
  IN /\ req[r].pc = "post"
     /\ api_keys' = IF signal # "retry" /\ h = "return" /\ seen.collected
                    THEN record_usage(api_keys, req[r].key)
                    ELSE api_keys
     /\ req' = [req EXCEPT ![r] =
          IF signal = "retry"
          THEN [seen EXCEPT !.retry = @ + 1]
          ELSE CASE h = "return"         -> [seen EXCEPT !.signal = signal, !.pc = "done", !.result = "ok"]
                 [] h = "mark_exhausted" -> [seen EXCEPT !.signal = signal, !.pc = "mark"]
                 [] h = "mark_error"     -> [seen EXCEPT !.signal = signal, !.pc = "mark"]
                 [] h = "sleep"          -> [seen EXCEPT !.signal = signal, !.pc = "sleep"]
                 [] h = "raise_timeout"  -> [seen EXCEPT !.signal = signal, !.pc = "done", !.result = "AiError_timeout"]
                 [] OTHER                -> [seen EXCEPT !.signal = signal, !.pc = "done", !.result = "AiError"]]
     /\ UNCHANGED <<config, now, keys, current_index, locks, admin, rec, restarts, budget, hist, acqLog, botVars>>

\* asyncio.sleep(5) after a ServerError, then continue
ReqSleepDone(r) ==
  /\ req[r].pc = "sleep"
  /\ req' = [req EXCEPT ![r] = NextAttempt(req[r])]
  /\ UNCHANGED <<config, now, keys, current_index, locks, api_keys, admin, rec, restarts, budget, hist, acqLog, botVars>>

MarkStatus(rq) == IF Handler(rq.signal) = "mark_exhausted" THEN "exhausted" ELSE "error"

\* history: a key is latched once mark_error has completed for it, until the
\* next mark_active call for it
HistMarkMem(h, status) ==
  IF h \in DOMAIN hist /\ status = "active" THEN [hist EXCEPT ![h].err = FALSE] ELSE hist

HistMarkDb(h, p, status) ==
  IF h \in DOMAIN hist /\ FirstMatch(keys[p], h) # 0 /\ status = "error"
  THEN [hist EXCEPT ![h].err = TRUE]
  ELSE hist

\* mark_exhausted / mark_error up to the await of the store
ReqMarkMem(r) ==
  LET p == req[r].provider
  IN /\ req[r].pc = "mark"
     /\ Unlocked(p)
     /\ locks' = [locks EXCEPT ![p] = r]
     /\ keys' = [keys EXCEPT ![p] = MarkMem(keys[p], req[r].key, MarkStatus(req[r]), now)]
     /\ req' = [req EXCEPT ![r].pc = "mark_db"]
     /\ hist' = HistMarkMem(req[r].key, MarkStatus(req[r]))
     /\ UNCHANGED <<config, now, current_index, api_keys, admin, rec, restarts, budget, acqLog, botVars>>

\* update_key_status, release of the lock, continue
ReqMarkDb(r) ==
  LET p == req[r].provider
  IN /\ req[r].pc = "mark_db"
     /\ locks[p] = r
     /\ api_keys' = IF FirstMatch(keys[p], req[r].key) = 0 THEN api_keys
                    ELSE update_key_status(api_keys, req[r].key, MarkStatus(req[r]), now)
     /\ locks' = [locks EXCEPT ![p] = "free"]
     /\ req' = [req EXCEPT ![r] = NextAttempt(req[r])]
     /\ hist' = HistMarkDb(req[r].key, p, MarkStatus(req[r]))
     /\ UNCHANGED <<config, now, keys, current_index, admin, rec, restarts, budget, acqLog, botVars>>

\* get_recovery_time and raise AllKeysExhaustedError
ReqRaiseAll(r) ==
  /\ req[r].pc = "raise_all"
  /\ req' = [req EXCEPT ![r].pc = "done",
                        ![r].result = "AllKeysExhaustedError",
                        ![r].recovery = get_earliest_exhausted_recovery(
                                          api_keys, req[r].provider, key_cooldown_minutes)]
  /\ UNCHANGED <<config, now, keys, current_index, locks, api_keys, admin, rec, restarts, budget, hist, acqLog, botVars>>

\* the caller has seen the end of the call
ReqReturn(r) ==
  /\ req[r].pc = "done"
  /\ req' = [req EXCEPT ![r] = IdleReq]
  /\ UNCHANGED <<config, now, keys, current_index, locks, api_keys, admin, rec, restarts, budget, hist, acqLog, botVars>>

\* ------------------------------------------------------ admin key toggles
IdleAdmin == [pc |-> "idle", status |-> "active", key |-> 0, provider |-> "openrouter"]

\* cb_key_exhaust (status "exhausted") and cb_key_activate (status "active")
\* for the key hash of the callback data, up to the await of the store in
\* mark_exhausted / mark_active
AdminMarkMem(status, h) ==
  LET p == TargetProvider(h)
  IN /\ admin.pc = "idle"
     /\ \E q \in Providers : FirstMatch(keys[q], h) # 0
     /\ Unlocked(p)
     /\ locks' = [locks EXCEPT ![p] = "admin"]
     /\ keys' = [keys EXCEPT ![p] = MarkMem(keys[p], h, status, now)]
     /\ admin' = [pc |-> "mark_db", status |-> status, key |-> h, provider |-> p]
     /\ budget.toggles > 0
     /\ budget' = [budget EXCEPT !.toggles = @ - 1]
     /\ hist' = HistMarkMem(h, status)
     /\ UNCHANGED <<config, now, current_index, api_keys, req, rec, restarts, acqLog, botVars>>

AdminMarkDb ==
  LET p == admin.provider
  IN /\ admin.pc = "mark_db"
     /\ locks[p] = "admin"
     /\ api_keys' = IF FirstMatch(keys[p], admin.key) = 0 THEN api_keys
                    ELSE update_key_status(api_keys, admin.key, admin.status, now)
     /\ locks' = [locks EXCEPT ![p] = "free"]
     /\ admin' = IdleAdmin
     /\ hist' = HistMarkDb(admin.key, p, admin.status)
     /\ UNCHANGED <<config, now, keys, current_index, req, rec, restarts, budget, acqLog, botVars>>

\* ---------------------------------------------------------- recovery loop
IdleRec == [pc |-> "sleep", pi |-> 1, dbTime |-> 0, lastT |-> [p \in Providers |-> NULL]]

\* the loop is through with the current provider, which it asked the store
\* about at time t: on to the next provider, or to sleep after the last one
RecAdvance(t) ==
  LET done == [rec EXCEPT !.lastT[ProviderOrder[rec.pi]] = t, !.dbTime = 0]
  IN IF rec.pi < Len(ProviderOrder)
     THEN [done EXCEPT !.pc = "db", !.pi = @ + 1]
     ELSE [done EXCEPT !.pc = "sleep", !.pi = 1]

\* asyncio.sleep(300) is over
RecWake ==
  /\ rec.pc = "sleep"
  /\ rec' = [rec EXCEPT !.pc = "db"]
  /\ UNCHANGED <<config, now, keys, current_index, locks, api_keys, req, admin, restarts, budget, hist, acqLog, botVars>>

\* reset_exhausted_keys for the current provider
RecDb ==
  LET p == ProviderOrder[rec.pi]
      recovered == Cardinality(ResetRows(api_keys, p, key_cooldown_minutes, now))
  IN /\ rec.pc = "db"
     /\ api_keys' = reset_exhausted_keys(api_keys, p, key_cooldown_minutes, now)
     /\ rec' = IF recovered > 0
               THEN [rec EXCEPT !.pc = "mem", !.dbTime = now]
               ELSE RecAdvance(now)
     /\ UNCHANGED <<config, now, keys, current_index, locks, req, admin, restarts, budget, hist, acqLog, botVars>>

\* the in-memory update, under the provider's lock
RecMem ==
  LET p == ProviderOrder[rec.pi]
  IN /\ rec.pc = "mem"
     /\ Unlocked(p)
     /\ keys' = [keys EXCEPT ![p] = RecoverMem(keys[p], key_cooldown_minutes, now)]
     /\ rec' = RecAdvance(rec.dbTime)
     /\ UNCHANGED <<config, now, current_index, locks, api_keys, req, admin, restarts, budget, hist, acqLog, botVars>>

\* ------------------------------------------------------ clock and restart
\* a store write of a mark_* call does not span a tick
Tick ==
  /\ now < BootTime + MaxElapsed
  /\ \A p \in Providers : locks[p] = "free"
  /\ now' = now + 1
  /\ UNCHANGED <<config, keys, current_index, locks, api_keys, req, admin, rec, restarts, budget, hist, acqLog, botVars>>

\* the process ends and is started again: on_startup runs initialize on the
\* store the previous run left behind
Restart ==
  /\ restarts < MaxRestarts
  /\ restarts' = restarts + 1
  /\ api_keys' = InitializeStore(config, api_keys)
  /\ keys' = InitializeKeys(config, InitializeStore(config, api_keys))
  /\ current_index' = [p \in Providers |-> 0]
  /\ locks' = [p \in Providers |-> "free"]
  /\ req' = [r \in Requests |-> IdleReq]
  /\ admin' = IdleAdmin
  /\ rec' = IdleRec
  /\ UNCHANGED <<config, now, budget, hist, acqLog, botVars>>

\* ------------------------------------------------------------ specification
EmptyTable == [h \in {} |-> NewRow("openrouter")]

\* the state after on_startup on a new database
Booted(cfg, calls, toggles) ==
  /\ config = cfg
  /\ budget = [calls |-> calls, toggles |-> toggles]
  /\ now = BootTime
  /\ api_keys = InitializeStore(cfg, EmptyTable)
  /\ keys = InitializeKeys(cfg, InitializeStore(cfg, EmptyTable))
  /\ current_index = [p \in Providers |-> 0]
  /\ locks = [p \in Providers |-> "free"]
  /\ req = [r \in Requests |-> IdleReq]
  /\ admin = IdleAdmin
  /\ rec = IdleRec
  /\ restarts = 0
  /\ hist = [h \in KeysOf(cfg) |-> [err |-> FALSE]]
  /\ acqLog = [p \in Providers |-> << >>]

\* ThrottleMiddleware(rate_limit=1.0), in seconds and in ticks
rate_limit == 1
RateLimitTicks == rate_limit * TicksPerSecond

\* time.monotonic() when the bot starts polling: the clock's epoch lies
\* more than rate_limit back
MonoStart == RateLimitTicks + 1

\* the dispatcher has received no update yet: no user is registered, no
\* /broadcast is running
NoUsers == [u \in {} |-> [is_banned |-> FALSE]]
IdleUpd == [pc |-> "idle", kind |-> "message", user |-> 0, is_bot |-> FALSE, cmd |-> "", arg |-> 0,
            outcome |-> "", reply |-> "", stages |-> << >>]
NoLast == [u \in {} |-> 0]
IdleBc == [pc |-> "idle", ids |-> << >>, i |-> 1, sent |-> 0, failed |-> 0, progress |-> 0,
           attempts |-> [u \in {} |-> 0]]
NoCall == [pc |-> "idle"]

BotBooted ==
  /\ users = NoUsers
  /\ upd = IdleUpd
  /\ mono = MonoStart
  /\ user_last = NoLast
  /\ bc = IdleBc
  /\ fn = NoCall
  /\ fwd = NoLast
  /\ messages = << >> /\ bot_stats = << >>

\* two keys for openrouter, none for gemini
Init == Booted([openrouter |-> <<1, 2>>, gemini |-> << >>], MaxCalls, MaxToggles) /\ BotBooted

\* one chat request at a time next to the admin, the recovery loop, the
\* clock and a restart
Next ==
  \/ \E r \in Requests, p \in Providers : ReqStart(r, p)
  \/ \E r \in Requests : ReqGetKey(r)
  \/ \E r \in Requests, resp \in KeyResponses : ReqPost(r, resp)
  \/ \E r \in Requests : ReqMarkMem(r)
  \/ \E r \in Requests : ReqMarkDb(r)
  \/ \E r \in Requests : ReqRaiseAll(r)
  \/ \E r \in Requests : ReqReturn(r)
  \/ \E status \in {"exhausted", "active"}, h \in KeysOf(config) : AdminMarkMem(status, h)
  \/ AdminMarkDb
  \/ RecWake
  \/ RecDb
  \/ RecMem
  \/ Tick
  \/ Restart

Spec == Init /\ [][Next]_vars

\* ------------------------------------------------- stream_response in detail
\* stream_response calls with every kind of response, next to the admin; the
\* clock stands still
InitClient == Booted([openrouter |-> <<1, 2>>, gemini |-> << >>], ClientCalls, ClientToggles) /\ BotBooted

NextClient ==
  \/ \E r \in Requests, p \in Providers : ReqStart(r, p)
  \/ \E r \in Requests : ReqGetKey(r)
  \/ \E r \in Requests, resp \in Responses : ReqPost(r, resp)
  \/ \E r \in Requests : ReqSleepDone(r)
  \/ \E r \in Requests : ReqMarkMem(r)
  \/ \E r \in Requests : ReqMarkDb(r)
  \/ \E r \in Requests : ReqRaiseAll(r)
  \/ \E r \in Requests : ReqReturn(r)
  \/ \E status \in {"exhausted", "active"}, h \in KeysOf(config) : AdminMarkMem(status, h)
  \/ AdminMarkDb

SpecClient == InitClient /\ [][NextClient]_vars

\* one key for openrouter, none for gemini, the clock standing still
InitShort == Booted([openrouter |-> <<1>>, gemini |-> << >>], ShortCalls, ShortToggles) /\ BotBooted

SpecShort == InitShort /\ [][NextClient]_vars

TypeOK ==
  /\ now \in BootTime..(BootTime + MaxElapsed)
  /\ DOMAIN api_keys = KeysOf(config)
  /\ \A p \in Providers : Len(keys[p]) = Len(config[p])

\* ------------------------------------------------------- key lifecycle claims
Max(a, b) == IF a >= b THEN a ELSE b

\* C1: a key that was put in the error status is never active again, in
\* memory or in the store, unless an administrator activates it.
C1_ErrorStaysUntilActivated ==
  \A h \in DOMAIN hist :
    hist[h].err => (MemStatus(h) # "active" /\ api_keys[h].status # "active")

\* C2: once the recovery loop has finished an iteration for a provider that
\* asked the store at least the cooldown after a key of it was last marked
\* exhausted, that key is exhausted neither in memory nor in the store.
C2_RecoveredAfterCooldown ==
  \A p \in Providers : \A i \in 1..Len(keys[p]) :
    LET ks == keys[p][i]
        row == api_keys[ks.key_hash]
        marked == Max(ks.last_exhausted, row.last_exhausted)
    IN (ks.status = "exhausted" \/ row.status = "exhausted")
       => ~(/\ rec.lastT[p] # NULL
            /\ rec.lastT[p] >= marked + cooldown_sec(key_cooldown_minutes))

\* C3: the recovery loop turns a key from exhausted to active, in memory or
\* in the store, only when the cooldown has passed since the key was last
\* marked exhausted.
C3_NotBeforeCooldown ==
  [][(RecDb \/ RecMem) =>
       \A h \in DOMAIN api_keys :
         (\/ (MemStatus(h) = "exhausted" /\ MemStatus(h)' = "active")
          \/ (api_keys[h].status = "exhausted" /\ api_keys'[h].status = "active"))
         => (/\ api_keys[h].last_exhausted # NULL
             /\ now - api_keys[h].last_exhausted >= cooldown_sec(key_cooldown_minutes))]_vars

\* ------------------------------------------------------------- round robin
\* get_key called directly, one call after the other, next to mark_* calls
\* that run to completion
LogLen(p) == Len(config[p]) + 1

Append1(log, x, n) == IF Len(log) < n THEN Append(log, x) ELSE Append(Tail(log), x)

RRGetKey(p) ==
  LET got == get_key(keys[p], current_index[p])
  IN /\ Unlocked(p)
     /\ current_index' = [current_index EXCEPT ![p] = got.index]
     /\ acqLog' = [acqLog EXCEPT ![p] = Append1(@, got.key, LogLen(p))]
     /\ UNCHANGED <<config, now, keys, locks, api_keys, req, admin, rec, restarts, budget, hist, botVars>>

RRMark(status, h) ==
  LET p == TargetProvider(h)
  IN /\ budget.toggles > 0
     /\ Unlocked(p)
     /\ budget' = [budget EXCEPT !.toggles = @ - 1]
     /\ keys' = [keys EXCEPT ![p] = MarkMem(@, h, status, now)]
     /\ api_keys' = update_key_status(api_keys, h, status, now)
     /\ hist' = [hist EXCEPT ![h].err = (status = "error") \/ (@ /\ status # "active")]
     /\ acqLog' = [acqLog EXCEPT ![p] = << >>]
     /\ UNCHANGED <<config, now, current_index, locks, req, admin, rec, restarts, botVars>>

\* three keys for openrouter, one for gemini
InitRR == Booted([openrouter |-> <<1, 2, 3>>, gemini |-> <<4>>], 0, RRMarks) /\ BotBooted

NextRR ==
  \/ \E p \in Providers : RRGetKey(p)
  \/ \E status \in {"exhausted", "error", "active"}, h \in KeysOf(config) : RRMark(status, h)

SpecRR == InitRR /\ [][NextRR]_vars

\* C4: with the n keys of a provider all active and no status change between
\* the calls, any n consecutive get_key calls return each of the n keys
\* exactly once, and the call after them returns the same key as the first.
C4_RoundRobin ==
  \A p \in Providers :
    LET n == Len(keys[p])
        log == acqLog[p]
    IN (n > 0 /\ Len(ActiveKeys(keys[p])) = n) =>
         /\ \A s \in 1..(Len(log) - n + 1) :
              /\ {log[j] : j \in s..(s + n - 1)} = SeqRange(config[p])
              /\ \A i, j \in s..(s + n - 1) : i # j => log[i] # log[j]
         /\ \A s \in 1..(Len(log) - n) : log[s + n] = log[s]

C4_Witness ==
  /\ Len(keys["openrouter"]) = 3
  /\ Len(ActiveKeys(keys["openrouter"])) = 3
  /\ Len(acqLog["openrouter"]) = 4
  /\ acqLog["openrouter"][4] = acqLog["openrouter"][1]

\* ------------------------------------------------- stream_response claims
\* stream_response under fair scheduling: the event loop runs every task that
\* can run, a POST ends within the session's total timeout, asyncio.sleep
\* ends, and asyncio.Lock wakes its waiters in turn
Fairness ==
  /\ \A r \in Requests :
       /\ SF_vars(ReqGetKey(r))
       /\ SF_vars(ReqMarkMem(r))
       /\ WF_vars(\E resp \in Responses : ReqPost(r, resp))
       /\ WF_vars(ReqSleepDone(r))
       /\ WF_vars(ReqMarkDb(r))
       /\ WF_vars(ReqRaiseAll(r))
  /\ WF_vars(AdminMarkDb)

InitLive == Booted([openrouter |-> <<1, 2>>, gemini |-> << >>], LiveCalls, LiveToggles) /\ BotBooted

SpecLive == InitLive /\ [][NextClient]_vars /\ Fairness

\* the earliest time at which an exhausted key of the provider is due, NULL
\* when the store holds none
EarliestDue(p) ==
  LET ex == {h \in DOMAIN api_keys : /\ api_keys[h].provider = p
                                     /\ api_keys[h].status = "exhausted"
                                     /\ api_keys[h].last_exhausted # NULL}
  IN IF ex = {} THEN NULL
     ELSE CHOOSE d \in {api_keys[h].last_exhausted + cooldown_sec(key_cooldown_minutes) : h \in ex} :
            \A h \in ex : d <= api_keys[h].last_exhausted + cooldown_sec(key_cooldown_minutes)

\* C5: one stream_response call acquires a key at most 5 times; when its 5
\* attempts are used up it fails with AllKeysExhaustedError carrying the
\* provider's recovery estimate; and every call comes to an end.
C5_AtMostFiveAttempts ==
  /\ [](\A r \in Requests :
          /\ req[r].acquired <= max_key_attempts
          /\ req[r].attempt <= max_key_attempts
          /\ req[r].attempt = max_key_attempts =>
               /\ req[r].pc \in {"raise_all", "done"}
               /\ req[r].pc = "done" => req[r].result = "AllKeysExhaustedError")
  /\ [][\A r \in Requests :
          (req[r].pc = "raise_all" /\ req'[r] # req[r]) =>
             /\ req'[r].pc = "done"
             /\ req'[r].result = "AllKeysExhaustedError"
             /\ req'[r].recovery = EarliestDue(req[r].provider)]_vars
  /\ \A r \in Requests : (req[r].pc # "idle") ~> (req[r].pc = "done")

C5_Witness ==
  \E r \in Requests :
    /\ req[r].pc = "done"
    /\ req[r].attempt = max_key_attempts
    /\ req[r].acquired = max_key_attempts
    /\ req[r].result = "AllKeysExhaustedError"
    /\ req[r].recovery # NULL

\* what a step leaves of the statuses of the keys other than h, in memory
\* and in the store
OthersUnchanged(h) ==
  /\ \A p \in Providers : \A i \in 1..Len(keys[p]) :
       keys[p][i].key_hash # h => keys'[p][i] = keys[p][i]
  /\ \A p \in Providers : Len(keys'[p]) = Len(keys[p])
  /\ \A x \in DOMAIN api_keys : x # h => api_keys'[x] = api_keys[x]
  /\ DOMAIN api_keys' = DOMAIN api_keys

\* the steps of stream_response after the provider call signalled sig for the
\* acquired key: the key, and no other, gets the status, first in memory and
\* then in the store, and the call goes on to the next attempt
MarksKeyAndContinues(sig, status) ==
  \A r \in Requests :
    /\ (req[r].pc = "post" /\ req'[r].signal = sig) =>
         /\ req'[r].pc = "mark"
         /\ req'[r].key = req[r].key
         /\ keys' = keys /\ api_keys' = api_keys
    /\ (req[r].signal = sig /\ req[r].pc = "mark" /\ req'[r] # req[r]) =>
         /\ req'[r].pc = "mark_db"
         /\ req'[r].key = req[r].key
         /\ MemStatus(req[r].key)' = status
         /\ OthersUnchanged(req[r].key)
    /\ (req[r].signal = sig /\ req[r].pc = "mark_db" /\ req'[r] # req[r]) =>
         /\ MemStatus(req[r].key)' = status
         /\ api_keys'[req[r].key].status = status
         /\ OthersUnchanged(req[r].key)
         /\ req'[r].attempt = req[r].attempt + 1
         /\ req'[r].pc = IF req'[r].attempt < max_key_attempts THEN "get_key" ELSE "raise_all"
         /\ req'[r].result = "none"
    /\ (req[r].pc = "get_key" /\ req'[r].pc = "post") =>
         /\ req'[r].acquired = req[r].acquired + 1
         /\ \E i \in 1..Len(keys[req[r].provider]) :
              /\ keys[req[r].provider][i].key_hash = req'[r].key
              /\ keys[req[r].provider][i].status = "active"

\* C6: when the provider call for the acquired key signals key-exhausted,
\* stream_response marks exactly that key exhausted, in memory and in the
\* store, changes no other key's status and goes on to the next attempt,
\* which acquires a key anew.
C6_ExhaustedKeyMarked == [][MarksKeyAndContinues("KeyExhaustedException", "exhausted")]_vars

C6_Witness ==
  \E r \in Requests :
    /\ req[r].pc = "post" /\ req[r].attempt = 1 /\ req[r].key = 2
    /\ budget.toggles = ClientToggles
    /\ MemStatus(1) = "exhausted" /\ api_keys[1].status = "exhausted"
    /\ MemStatus(2) = "active" /\ api_keys[2].status = "active"

\* C7: when the provider call for the acquired key signals an authentication
\* failure, stream_response sets exactly that key's status to error, in
\* memory and in the store, and goes on to the next attempt; the request
\* does not fail.
C7_AuthKeyDisabled == [][MarksKeyAndContinues("KeyAuthError", "error")]_vars

C7_Witness ==
  \E r \in Requests :
    /\ req[r].pc = "post" /\ req[r].attempt = 1 /\ req[r].key = 2
    /\ budget.toggles = ClientToggles
    /\ MemStatus(1) = "error" /\ api_keys[1].status = "error"
    /\ MemStatus(2) = "active" /\ api_keys[2].status = "active"

\* the step by which stream_response turns to raising AllKeysExhaustedError
TurnsToAllKeysExhausted(r) == req[r].pc # "raise_all" /\ req'[r].pc = "raise_all"

\* C8 as stated: stream_response fails with the all-keys-exhausted condition
\* only when the provider has no active key left.
C8_OnlyWhenNoKeyRemains ==
  [][\A r \in Requests :
       TurnsToAllKeysExhausted(r) => ~has_active_keys(req[r].provider)']_vars

\* C8: stream_response fails with the all-keys-exhausted condition only when
\* the provider has no active key left or when the call has used up its 5
\* attempts; with attempts left and an active key, get_key hands out an
\* active key and the call goes on with it.
C8_OnlyWhenNoKeyOrAttemptsRemain ==
  [][\A r \in Requests :
       /\ TurnsToAllKeysExhausted(r) =>
            \/ ~has_active_keys(req[r].provider)'
            \/ req'[r].attempt = max_key_attempts
       /\ (req[r].pc = "get_key" /\ req'[r] # req[r] /\ has_active_keys(req[r].provider)) =>
            /\ req'[r].pc = "post"
            /\ \E i \in 1..Len(keys[req[r].provider]) :
                 /\ keys[req[r].provider][i].key_hash = req'[r].key
                 /\ keys[req[r].provider][i].status = "active"]_vars

C8_Witness ==
  \E r \in Requests :
    /\ req[r].pc = "raise_all"
    /\ req[r].attempt = max_key_attempts
    /\ has_active_keys(req[r].provider)
    /\ \E h \in DOMAIN api_keys : api_keys[h].status = "exhausted"

\* C9: a stream_response call that finds no active key of its provider at
\* its first attempt fails with AllKeysExhaustedError without any HTTP call
\* and without changing any key's status.
C9_NoActiveKeyShortCircuit ==
  [][\A r \in Requests :
       /\ (/\ req[r].pc = "get_key" /\ req[r].attempt = 0 /\ req'[r] # req[r]
           /\ ~has_active_keys(req[r].provider)) =>
            /\ req'[r].pc = "raise_all"
            /\ req'[r].attempt = 0 /\ req'[r].http = 0 /\ req'[r].acquired = 0
            /\ keys' = keys /\ api_keys' = api_keys
       /\ (req[r].pc = "raise_all" /\ req'[r] # req[r]) =>
            /\ req'[r].pc = "done"
            /\ req'[r].result = "AllKeysExhaustedError"
            /\ req'[r].attempt = req[r].attempt
            /\ req'[r].http = req[r].http
            /\ keys' = keys /\ api_keys' = api_keys]_vars

C9_Witness ==
  \E r \in Requests :
    /\ req[r].provider = "openrouter"
    /\ req[r].pc = "done" /\ req[r].result = "AllKeysExhaustedError"
    /\ req[r].attempt = 0 /\ req[r].http = 0
    /\ \A i \in 1..Len(keys["openrouter"]) : keys["openrouter"][i].status = "exhausted"

\* C10: when a POST of an attempt ends in the timeout, stream_response fails
\* at once with the timed-out error: no key is acquired after it, no HTTP
\* call is made after it and no key's status changes.
C10_TimeoutFailsAtOnce ==
  [][\A r \in Requests :
       /\ (req[r].pc = "post" /\ req'[r].signal = "TimeoutError") =>
            /\ req'[r].pc = "done"
            /\ req'[r].result = "AiError_timeout"
            /\ req'[r].acquired = req[r].acquired
            /\ req'[r].http = req[r].http + 1
            /\ keys' = keys /\ api_keys' = api_keys
       /\ (req[r].pc = "done" /\ req'[r] # req[r]) =>
            /\ req'[r] = IdleReq
            /\ keys' = keys /\ api_keys' = api_keys]_vars

C10_Witness ==
  \E r \in Requests :
    /\ req[r].pc = "done" /\ req[r].result = "AiError_timeout"
    /\ req[r].signal = "TimeoutError"
    /\ req[r].attempt = 1 /\ req[r].collected

\* ------------------------------------------------------------ usage counter
\* the step by which a stream_response call ends in success
EndsInSuccess(r) ==
  req[r].pc = "post" /\ req'[r].pc = "done" /\ req'[r].result = "ok"

\* the store's request counters after a step: the one of key h is one more,
\* the others are as before
CountedOnceOn(h) ==
  /\ api_keys'[h].total_requests = api_keys[h].total_requests + 1
  /\ \A x \in DOMAIN api_keys : x # h => api_keys'[x].total_requests = api_keys[x].total_requests

NothingCounted ==
  \A x \in DOMAIN api_keys : api_keys'[x].total_requests = api_keys[x].total_requests

admin_ids == {1, 2}

\* an access check that lets everybody in
is_admin_Anyone(user_id) == TRUE

is_admin(user_id) == user_id \in admin_ids

\* None of a TEXT column or of a name Telegram does not give
None == "None"

\* a row of users as INSERT INTO users (user_id, username, first_name) makes
\* it: the other columns get their defaults
NewUser(username, first_name, t) ==
  [username |-> username, first_name |-> first_name, created_at |-> DbNow(t),
   last_active |-> DbNow(t), is_banned |-> FALSE, total_messages |-> 0,
   selected_model |-> None, selected_provider |-> None]

\* INSERT OR REPLACE: the row is made anew
upsert_user_Replace(tbl, u, username, first_name, t) ==
  [x \in DOMAIN tbl \cup {u} |-> IF x = u THEN NewUser(username, first_name, t) ELSE tbl[x]]

\* INSERT ... ON CONFLICT(user_id) DO UPDATE SET username, first_name,
\* last_active
upsert_user(tbl, u, username, first_name, t) ==
  IF u \in DOMAIN tbl
  THEN [tbl EXCEPT ![u].username = username, ![u].first_name = first_name,
                   ![u].last_active = DbNow(t)]
  ELSE [x \in DOMAIN tbl \cup {u} |-> IF x = u THEN NewUser(username, first_name, t) ELSE tbl[x]]

\* a ban check that finds nobody banned
is_banned_Never(tbl, u) == FALSE

is_banned(tbl, u) == u \in DOMAIN tbl /\ tbl[u].is_banned

\* UPDATE users SET is_banned = ? WHERE user_id = ?; the code's return value,
\* rowcount > 0, is u \in DOMAIN tbl
set_ban(tbl, u, banned) ==
  [x \in DOMAIN tbl |-> IF x = u THEN [tbl[x] EXCEPT !.is_banned = banned] ELSE tbl[x]]

\* the ids of a set in ascending order
RECURSIVE Ascending(_)
Ascending(S) ==
  IF S = {} THEN << >>
  ELSE LET m == CHOOSE x \in S : \A y \in S : x <= y
       IN <<m>> \o Ascending(S \ {m})

\* SELECT user_id FROM users WHERE is_banned = 0, in the order of the rows
get_all_user_ids(tbl) == Ascending({u \in DOMAIN tbl : ~tbl[u].is_banned})

\* d with d[k] = v
Put(d, k, v) == [x \in DOMAIN d \cup {k} |-> IF x = k THEN v ELSE d[x]]

\* a throttle that also drops the message that comes exactly one limit later
Throttled_Inclusive(t, last) == t - last <= RateLimitTicks

\* now - last < self._rate_limit
Throttled(t, last) == t - last < RateLimitTicks

\* the names admin.py imports or defines at module level
AdminModuleNames ==
  {"logging", "os", "platform", "time", "datetime", "psutil", "Router", "F", "Command",
   "Message", "CallbackQuery", "InlineKeyboardMarkup", "InlineKeyboardButton", "ParseMode",
   "Config", "Database", "ApiKeyManager", "logger", "router", "BOT_START_TIME"}

\* cmd_broadcast edits the status message after every 25th attempt
progress_every == 25
display_limit == 4000
max_context_messages == 15

\* polling hands an update to the dispatcher once the one before it is
\* through; ev is the update's kind, sender, command and argument.  The
\* locals of the handler before it are gone.
\* the middlewares main registers on dp.message and on dp.callback_query,
\* outermost first
Middlewares ==
  [message |-> <<"LoggingMiddleware", "UserRegistrationMiddleware", "ThrottleMiddleware">>,
   callback |-> <<"CallbackRegistrationMiddleware">>]

\* an update arrives; LoggingMiddleware, where it is registered, writes its
\* debug line and calls the next stage without an await in between; stages
\* lists, for stating properties only, the middlewares the update entered
Receive(ev) ==
  /\ upd.pc \in {"idle", "done"}
  /\ upd' = [pc |-> "registration", kind |-> ev.kind, user |-> ev.user, is_bot |-> ev.is_bot,
             cmd |-> ev.cmd, arg |-> ev.arg, outcome |-> "", reply |-> "",
             stages |-> IF Head(Middlewares[ev.kind]) = "LoggingMiddleware"
                        THEN <<"LoggingMiddleware">> ELSE << >>]
  /\ bc' = IdleBc
  /\ UNCHANGED <<keyVars, users, mono, user_last, fn, fwd, messages, bot_stats>>

\* username and first_name of the senders
SenderName == "name"

\* the registration middlewares: the sender, unless a bot, is upserted and
\* then looked up; a banned sender is answered and the handler is not called
Entered(kind) ==
  IF kind = "message" THEN "UserRegistrationMiddleware" ELSE "CallbackRegistrationMiddleware"

Registration(kind, notice, passedOn) ==
  /\ upd.pc = "registration" /\ upd.kind = kind
  /\ LET tbl == IF upd.is_bot THEN users ELSE upsert_user(users, upd.user, SenderName, SenderName, now)
     IN /\ users' = tbl
        /\ upd' = IF ~upd.is_bot /\ is_banned(tbl, upd.user)
                  THEN [upd EXCEPT !.pc = "done", !.outcome = "blocked", !.reply = notice,
                                   !.stages = Append(@, Entered(kind))]
                  ELSE [upd EXCEPT !.pc = passedOn, !.stages = Append(@, Entered(kind))]
  /\ UNCHANGED <<keyVars, mono, user_last, bc, fn, fwd, messages, bot_stats>>

\* on messages: event.answer(notice); the throttle is the next middleware
UserRegistrationMiddleware == Registration("message", "blocked", "throttle")

\* on callback queries: event.answer(notice, show_alert=True); the handler
\* comes next
CallbackRegistrationMiddleware == Registration("callback", "blocked_alert", "handler")

\* a throttle that stamps the sender's time on a dropped message too
ThrottleMiddleware_StampsDropped ==
  /\ upd.pc = "throttle"
  /\ LET last == IF upd.user \in DOMAIN user_last THEN user_last[upd.user] ELSE 0
     IN IF Throttled(mono, last)
        THEN /\ upd' = [upd EXCEPT !.pc = "done", !.outcome = "dropped",
                                   !.stages = Append(@, "ThrottleMiddleware")]
             /\ user_last' = Put(user_last, upd.user, mono)
             /\ fwd' = fwd
        ELSE /\ upd' = [upd EXCEPT !.pc = "handler", !.stages = Append(@, "ThrottleMiddleware")]
             /\ user_last' = Put(user_last, upd.user, mono)
             /\ fwd' = Put(fwd, upd.user, mono)
  /\ UNCHANGED <<keyVars, users, mono, bc, fn, messages, bot_stats>>

ThrottleMiddleware ==
  /\ upd.pc = "throttle"
  /\ LET last == IF upd.user \in DOMAIN user_last THEN user_last[upd.user] ELSE 0
     IN IF Throttled(mono, last)
        THEN /\ upd' = [upd EXCEPT !.pc = "done", !.outcome = "dropped",
                                   !.stages = Append(@, "ThrottleMiddleware")]
             /\ UNCHANGED <<user_last, fwd>>
        ELSE /\ upd' = [upd EXCEPT !.pc = "handler", !.stages = Append(@, "ThrottleMiddleware")]
             /\ user_last' = Put(user_last, upd.user, mono)
             /\ fwd' = Put(fwd, upd.user, mono)
  /\ UNCHANGED <<keyVars, users, mono, bc, fn, messages, bot_stats>>

\* time.monotonic() advances
MonoTick ==
  /\ mono < MonoStart + MaxMonoElapsed
  /\ mono' = mono + 1
  /\ UNCHANGED <<keyVars, users, upd, user_last, bc, fn, fwd, messages, bot_stats>>

\* ---------------------------------------------------------------- handlers
\* the handler returns, having answered with reply ("" for no answer)
Handled(reply) == [upd EXCEPT !.pc = "done", !.outcome = "handled", !.reply = reply]

AtHandler(kind, cmd) == upd.pc = "handler" /\ upd.kind = kind /\ upd.cmd = cmd

\* cmd_start of the user router and cb_noop of the callbacks router: an
\* answer, and nothing else
user_handler ==
  /\ upd.pc = "handler" /\ upd.cmd \in {"/start", "noop"}
  /\ upd' = Handled("reply")
  /\ UNCHANGED <<keyVars, users, mono, user_last, bc, fn, fwd, messages, bot_stats>>

cmd_admin ==
  /\ AtHandler("message", "/admin")
  /\ upd' = Handled(IF is_admin(upd.user) THEN "panel" ELSE "denied")
  /\ UNCHANGED <<keyVars, users, mono, user_last, bc, fn, fwd, messages, bot_stats>>

\* the read-only panels: adm:stats, adm:keys, adm:users, adm:ban_prompt,
\* adm:unban_prompt, adm:system, adm:broadcast, adm:main
PanelCallbacks ==
  {"adm:stats", "adm:keys", "adm:users", "adm:ban_prompt", "adm:unban_prompt", "adm:system",
   "adm:broadcast", "adm:main"}

cb_panel ==
  /\ upd.pc = "handler" /\ upd.kind = "callback" /\ upd.cmd \in PanelCallbacks
  /\ upd' = Handled(IF is_admin(upd.user) THEN "panel" ELSE "denied_alert")
  /\ UNCHANGED <<keyVars, users, mono, user_last, bc, fn, fwd, messages, bot_stats>>

\* cb_key_exhaust and cb_key_activate: upd.arg is the key hash of the
\* callback data; the mark_* call runs to its end, no other task holding the
\* provider's lock
cb_key_toggle(data, status) ==
  /\ AtHandler("callback", data)
  /\ IF ~is_admin(upd.user)
     THEN /\ upd' = Handled("denied_alert")
          /\ UNCHANGED <<keys, api_keys, hist>>
     ELSE IF upd.arg \notin DOMAIN api_keys
     THEN /\ upd' = Handled("key_not_found")
          /\ UNCHANGED <<keys, api_keys, hist>>
     ELSE LET h == upd.arg
              p == api_keys[h].provider
          IN /\ Unlocked(p)
             /\ status = "exhausted" => api_keys[h].exhausted_count < MaxExhaustions
             /\ keys' = [keys EXCEPT ![p] = MarkMem(@, h, status, now)]
             /\ api_keys' = update_key_status(api_keys, h, status, now)
             /\ hist' = [hist EXCEPT ![h].err = (status = "error") \/ (@ /\ status # "active")]
             /\ upd' = Handled("key_marked")
  /\ UNCHANGED <<config, now, current_index, locks, req, admin, rec, restarts, budget, acqLog,
                 users, mono, user_last, bc, fn, fwd, messages, bot_stats>>

cb_key_exhaust == cb_key_toggle("adm:key_exhaust", "exhausted")

cb_key_activate == cb_key_toggle("adm:key_activate", "active")

\* a /ban that does not look the target up in admin_ids
cmd_ban_AnyTarget ==
  /\ AtHandler("message", "/ban")
  /\ IF ~is_admin(upd.user) THEN upd' = Handled("") /\ users' = users
     ELSE IF upd.arg = 0 THEN upd' = Handled("usage") /\ users' = users
     ELSE /\ users' = set_ban(users, upd.arg, TRUE)
          /\ upd' = Handled(IF upd.arg \in DOMAIN users THEN "banned" ELSE "not_found")
  /\ UNCHANGED <<keyVars, mono, user_last, bc, fn, fwd, messages, bot_stats>>

\* upd.arg is the target id of the command text, 0 when the text has no
\* second word or one that is not all digits
cmd_ban ==
  /\ AtHandler("message", "/ban")
  /\ IF ~is_admin(upd.user) THEN upd' = Handled("") /\ users' = users
     ELSE IF upd.arg = 0 THEN upd' = Handled("usage") /\ users' = users
     ELSE IF upd.arg \in admin_ids THEN upd' = Handled("refused") /\ users' = users
     ELSE /\ users' = set_ban(users, upd.arg, TRUE)
          /\ upd' = Handled(IF upd.arg \in DOMAIN users THEN "banned" ELSE "not_found")
  /\ UNCHANGED <<keyVars, mono, user_last, bc, fn, fwd, messages, bot_stats>>

cmd_unban ==
  /\ AtHandler("message", "/unban")
  /\ IF ~is_admin(upd.user) THEN upd' = Handled("") /\ users' = users
     ELSE IF upd.arg = 0 THEN upd' = Handled("usage") /\ users' = users
     ELSE /\ users' = set_ban(users, upd.arg, FALSE)
          /\ upd' = Handled(IF upd.arg \in DOMAIN users THEN "unbanned" ELSE "not_found")
  /\ UNCHANGED <<keyVars, mono, user_last, bc, fn, fwd, messages, bot_stats>>

\* cmd_broadcast up to the status message; upd.arg is 0 when the command
\* has no text
cmd_broadcast ==
  /\ AtHandler("message", "/broadcast")
  /\ LET user_ids == get_all_user_ids(users)
     IN IF ~is_admin(upd.user) THEN upd' = Handled("") /\ bc' = bc
        ELSE IF upd.arg = 0 THEN upd' = Handled("usage") /\ bc' = bc
        ELSE IF user_ids = << >> THEN upd' = Handled("no_users") /\ bc' = bc
        ELSE /\ upd' = [upd EXCEPT !.pc = "broadcast", !.reply = "status"]
             /\ bc' = [pc |-> "send", ids |-> user_ids, i |-> 1, sent |-> 0, failed |-> 0,
                       progress |-> 0, attempts |-> [u \in SeqRange(user_ids) |-> 0]]
  /\ UNCHANGED <<keyVars, users, mono, user_last, fn, fwd, messages, bot_stats>>

\* one turn of the loop: send_message to the next recipient succeeds or
\* raises; after every 25th attempt the status message is edited and
\* asyncio.sleep is looked up, which raises NameError out of the handler
\* when the module knows no such name
BroadcastSend ==
  /\ upd.pc = "broadcast" /\ bc.pc = "send" /\ bc.i <= Len(bc.ids)
  /\ \E delivered \in BOOLEAN :
       LET sent == bc.sent + (IF delivered THEN 1 ELSE 0)
           failed == bc.failed + (IF delivered THEN 0 ELSE 1)
           edits == (sent + failed) % progress_every = 0
           raises == edits /\ "asyncio" \notin AdminModuleNames
       IN /\ bc' = [bc EXCEPT !.sent = sent, !.failed = failed, !.i = @ + 1,
                               !.attempts[bc.ids[bc.i]] = @ + 1,
                               !.progress = IF edits THEN sent + failed ELSE @,
                               !.pc = IF raises THEN "NameError" ELSE @]
          /\ upd' = IF raises THEN [upd EXCEPT !.pc = "done", !.outcome = "error"] ELSE upd
  /\ UNCHANGED <<keyVars, users, mono, user_last, fn, fwd, messages, bot_stats>>

\* after the loop: the status message becomes the summary
BroadcastSummary ==
  /\ upd.pc = "broadcast" /\ bc.pc = "send" /\ bc.i > Len(bc.ids)
  /\ bc' = [bc EXCEPT !.pc = "summary"]
  /\ upd' = Handled("summary")
  /\ UNCHANGED <<keyVars, users, mono, user_last, fn, fwd, messages, bot_stats>>

Handlers ==
  \/ user_handler
  \/ cmd_admin
  \/ cb_panel
  \/ cb_key_exhaust
  \/ cb_key_activate
  \/ cmd_ban
  \/ cmd_unban
  \/ cmd_broadcast
  \/ BroadcastSend
  \/ BroadcastSummary

\* ------------------------------------------- specification: the dispatcher
\* users who chat
ChatUsers == {1, 3}

\* senders: admin 1, user 3 and a bot; targets of /ban and /unban: none, the
\* admins and user 3; key hashes of the callback data: the configured key 1
\* and an unknown one
BotId == 4
UnknownKey == 7

Ev(kind, user, cmd, arg) == [kind |-> kind, user |-> user, is_bot |-> user = BotId, cmd |-> cmd, arg |-> arg]

Events ==
  {Ev("message", u, c, 0) : u \in {1, 3}, c \in {"/admin", "/start"}}
  \cup {Ev("callback", BotId, "noop", 0)}
  \cup {Ev("message", u, c, t) : u \in {1, 3}, c \in {"/ban", "/unban"}, t \in {0, 2, 3}}
  \cup {Ev("message", u, "/broadcast", t) : u \in {1, 3}, t \in {0, 1}}
  \cup {Ev("callback", u, c, 0) : u \in {1, 3}, c \in PanelCallbacks \cup {"noop"}}
  \cup {Ev("callback", u, c, h) : u \in {1, 3}, c \in {"adm:key_exhaust", "adm:key_activate"},
                                  h \in {1, UnknownKey}}

\* one key for openrouter; admin 2 has not written to the bot since the
\* tables were created, was registered before, or was banned before the id
\* was put into ADMIN_IDS
InitBot ==
  /\ Booted([openrouter |-> <<1>>, gemini |-> << >>], 0, 0)
  /\ upd = IdleUpd /\ mono = MonoStart /\ user_last = NoLast /\ bc = IdleBc /\ fn = NoCall
  /\ fwd = NoLast
  /\ messages = << >> /\ bot_stats = << >>
  /\ \E row \in {"none", "registered", "banned"} :
       users = IF row = "none" THEN NoUsers ELSE [u \in {2} |-> [NewUser(SenderName, SenderName, BootTime) EXCEPT !.is_banned = row = "banned"]]

NextBot ==
  \/ \E ev \in Events : Receive(ev)
  \/ UserRegistrationMiddleware
  \/ CallbackRegistrationMiddleware
  \/ ThrottleMiddleware
  \/ MonoTick
  \/ Handlers

SpecBot == InitBot /\ [][NextBot]_vars

\* --------------------------------------------------------- ban enforcement
\* the ban flag of the sender of the update in the pipeline, in table tbl
SenderBanned(tbl) == upd.user \in DOMAIN tbl /\ tbl[upd.user].is_banned

\* C12: an update of a sender whose ban flag is set when the registration
\* middleware looks it up is answered with the blocked notice (an alert for
\* a callback query) and goes no further; an update of a sender whose flag
\* is not set is passed on, a message to the throttle and a callback query to
\* its handler; and no update is at a handler while its sender's flag is set.
C12_BannedNeverHandled ==
  [][/\ (upd.pc = "registration" /\ upd' # upd) =>
          IF ~upd.is_bot /\ SenderBanned(users)
          THEN /\ upd'.pc = "done" /\ upd'.outcome = "blocked"
               /\ upd'.reply = (IF upd.kind = "callback" THEN "blocked_alert" ELSE "blocked")
          ELSE /\ upd'.pc = (IF upd.kind = "callback" THEN "handler" ELSE "throttle")
               /\ upd'.reply = ""
     /\ upd'.pc \in {"handler", "broadcast"} => ~SenderBanned(users')
     /\ (upd'.outcome = "handled" /\ upd.outcome # "handled") =>
          upd.pc \in {"handler", "broadcast"}]_vars

C12_Witness ==
  /\ upd.pc = "done" /\ upd.outcome = "blocked" /\ upd.kind = "callback"
  /\ upd.user = 3 /\ users[3].is_banned
  /\ 3 \in DOMAIN fwd

\* ------------------------------------------------------------- admin gate
BanFlagsKept == \A u \in DOMAIN users : users'[u].is_banned = users[u].is_banned

KeyStatusesKept ==
  /\ \A h \in DOMAIN api_keys : api_keys'[h].status = api_keys[h].status
  /\ \A p \in Providers : \A i \in 1..Len(keys[p]) : keys'[p][i].status = keys[p][i].status

\* the update in the pipeline comes from somebody who is no admin
NonAdminAtWork == upd.pc \notin {"idle", "done"} /\ upd.user \notin admin_ids

\* C13: no step taken for an update of a sender outside admin_ids, whatever
\* its command or callback data, changes a ban flag or a key's status or
\* makes /broadcast deliver anything.
C13_NonAdminChangesNothing ==
  [][NonAdminAtWork => BanFlagsKept /\ KeyStatusesKept /\ bc' = bc]_vars

C13_Witness ==
  /\ upd.pc = "done" /\ upd.outcome = "handled" /\ upd.user = 3
  /\ upd.cmd = "adm:key_exhaust" /\ upd.arg = 1
  /\ api_keys[1].status = "active"
  /\ 2 \in DOMAIN users /\ users[2].is_banned

\* ------------------------------------------------------- admins and /ban
\* C14: /ban with a target in admin_ids is refused when an admin sends it,
\* is not answered when somebody else does, and either way leaves
\* the users table as it is, whether the target's ban flag is set or not; and
\* no step at all sets the ban flag of an id in admin_ids.
C14_AdminNeverBanned ==
  [][/\ (AtHandler("message", "/ban") /\ upd.arg \in admin_ids /\ upd' # upd) =>
          /\ upd'.outcome = "handled" /\ users' = users
          /\ upd'.reply = (IF upd.user \in admin_ids THEN "refused" ELSE "")
     /\ \A a \in admin_ids :
          (a \in DOMAIN users' /\ users'[a].is_banned) => (a \in DOMAIN users /\ users[a].is_banned)]_vars

C14_Witness ==
  /\ upd.pc = "done" /\ upd.outcome = "handled" /\ upd.user = 1
  /\ upd.cmd = "/ban" /\ upd.arg = 2 /\ upd.reply = "refused"
  /\ 2 \in DOMAIN users /\ users[2].is_banned
  /\ 3 \in DOMAIN users /\ users[3].is_banned

\* ---------------------------------------------------------- access denied
\* the commands and callback data of the admin router
AdminEntryPoints ==
  PanelCallbacks \cup {"adm:key_exhaust", "adm:key_activate", "/admin", "/ban", "/unban", "/broadcast"}

\* C15: a sender outside admin_ids who invokes an admin entry point is
\* answered with the access-denied notice: an alert for a callback query, a
\* plain reply for the commands /admin, /ban, /unban and /broadcast.
C15_NonAdminIsToldDenied ==
  (upd.pc = "done" /\ upd.outcome = "handled" /\ upd.user \notin admin_ids
     /\ upd.cmd \in AdminEntryPoints) =>
    upd.reply = (IF upd.kind = "callback" THEN "denied_alert" ELSE "denied")

\* ------------------------------------------- specification: one /broadcast
\* the users table holds recipients 1..n, none of them banned, and may hold
\* one banned user more; admin 1 sends /broadcast with a text
InitBroadcast ==
  /\ Booted([openrouter |-> <<1>>, gemini |-> << >>], 0, 0)
  /\ upd = IdleUpd /\ mono = MonoStart /\ user_last = NoLast /\ bc = IdleBc /\ fn = NoCall
  /\ fwd = NoLast
  /\ messages = << >> /\ bot_stats = << >>
  /\ \E n \in 1..MaxRecipients, banned \in 0..1 :
       users = [u \in 1..(n + banned) |->
                  [NewUser(SenderName, SenderName, BootTime) EXCEPT !.is_banned = u > n]]

NextBroadcast ==
  \/ Receive(Ev("message", 1, "/broadcast", 1))
  \/ UserRegistrationMiddleware
  \/ ThrottleMiddleware
  \/ cmd_broadcast
  \/ BroadcastSend
  \/ BroadcastSummary

SpecBroadcast == InitBroadcast /\ [][NextBroadcast]_vars

\* C16: a /broadcast that found recipients ends with the summary, having
\* attempted every user who is not banned exactly once whatever deliveries
\* failed, with sent + failed the number of recipients and the progress shown
\* after every 25th attempt.
C16_BroadcastCompletes ==
  (upd.pc = "done" /\ upd.cmd = "/broadcast" /\ bc.pc # "idle") =>
    /\ bc.pc = "summary" /\ upd.reply = "summary"
    /\ DOMAIN bc.attempts = {u \in DOMAIN users : ~users[u].is_banned}
    /\ \A u \in DOMAIN bc.attempts : bc.attempts[u] = 1
    /\ bc.sent + bc.failed = Len(bc.ids)
    /\ bc.progress = progress_every * (Len(bc.ids) \div progress_every)

\* ---------------------------------------------------------------- throttle
\* C17: a message that comes to the throttle less than the limit (1.0 s)
\* after the last message of its sender the throttle passed on is dropped:
\* no handler, no answer, and it does not count as passed on; one that comes
\* at least the limit after it is passed on to the handler.
C17_Throttle ==
  [][(upd.pc = "throttle" /\ upd' # upd /\ upd.user \in DOMAIN fwd) =>
       IF mono - fwd[upd.user] < RateLimitTicks
       THEN /\ upd'.pc = "done" /\ upd'.outcome = "dropped" /\ upd'.reply = ""
            /\ fwd' = fwd
       ELSE /\ upd'.pc = "handler"
            /\ fwd'[upd.user] = mono]_vars

C17_Witness ==
  /\ upd.pc = "done" /\ upd.outcome = "dropped" /\ upd.user = 3
  /\ mono = fwd[3] + RateLimitTicks - 1
  /\ 1 \in DOMAIN fwd /\ fwd[1] = mono

\* ------------------------------------------------------------ conversation
\* INSERT INTO messages: the row gets the next id, which is its place in the
\* table, and created_at = datetime('now'), the clock to the whole second
save_message(tbl, user_id, role, response_time_ms, t) ==
  Append(tbl, [user_id |-> user_id, role |-> role, content |-> Len(tbl) + 1,
               response_time_ms |-> response_time_ms, created_at |-> DbNow(t)])

\* the rows of the inner SELECT's WHERE clause
ContextRows(tbl, user_id) ==
  {i \in 1..Len(tbl) : tbl[i].user_id = user_id /\ tbl[i].role \in {"user", "assistant"}}

\* the sequences of n different members of S
Arrangements(S, n) == {s \in [1..n -> S] : \A i, j \in 1..n : i # j => s[i] # s[j]}

MinOf(a, b) == IF a <= b THEN a ELSE b

\* what ORDER BY created_at DESC LIMIT ? can select: as many rows as the
\* limit allows, none of them older than a row left out; rows of the same
\* created_at come in an order the query does not fix
NewestRows(tbl, user_id, limit) ==
  LET R == ContextRows(tbl, user_id)
      n == MinOf(limit, Cardinality(R))
  IN {X \in SUBSET R : /\ Cardinality(X) = n
                       /\ \A x \in X, y \in R \ X : tbl[x].created_at >= tbl[y].created_at}

\* the results the query can give: the selected rows ORDER BY created_at ASC,
\* rows of the same created_at again in any order
get_context(tbl, user_id, limit) ==
  {[i \in 1..Len(s) |-> [role |-> tbl[s[i]].role, content |-> tbl[s[i]].content]] :
     s \in UNION {{a \in Arrangements(X, Cardinality(X)) :
                     \A i, j \in 1..Cardinality(X) :
                       i < j => tbl[a[i]].created_at <= tbl[a[j]].created_at} :
                  X \in NewestRows(tbl, user_id, limit)}}

SaveMessage(user_id, role) ==
  /\ Len(messages) < MaxStored
  /\ messages' = save_message(messages, user_id, role, NULL, now)
  /\ UNCHANGED <<keyVars, users, upd, mono, user_last, bc, fn, fwd, bot_stats>>

GetContext(user_id, limit) ==
  /\ \E res \in get_context(messages, user_id, limit) :
       fn' = [pc |-> "done", op |-> "get_context", user_id |-> user_id, limit |-> limit, res |-> res]
  /\ UNCHANGED <<keyVars, users, upd, mono, user_last, bc, messages, fwd, bot_stats>>

InitContext ==
  /\ Booted([openrouter |-> <<1>>, gemini |-> << >>], 0, 0)
  /\ BotBooted

NextContext ==
  \/ \E u \in ChatUsers, role \in {"user", "assistant", "system"} : SaveMessage(u, role)
  \/ \E u \in ChatUsers, limit \in 1..MaxLimit : GetContext(u, limit)
  \/ Tick

SpecContext == InitContext /\ [][NextContext]_vars

\* the rows of S in the order of their ids
RECURSIVE InStoredOrder(_)
InStoredOrder(S) ==
  IF S = {} THEN << >>
  ELSE LET m == CHOOSE x \in S : \A y \in S : x <= y
       IN <<m>> \o InStoredOrder(S \ {m})

\* the last n elements of s
LastOf(s, n) == SubSeq(s, Len(s) - n + 1, Len(s))

\* C18: get_context(user, N) returns the min(N, stored) most recent user and
\* assistant turns of the user, oldest first, in the order they were stored,
\* also when turns have the same creation timestamp.
C18_ContextIsLastTurns ==
  [][fn' # fn =>
       LET stored == InStoredOrder(ContextRows(messages, fn'.user_id))
           last == LastOf(stored, MinOf(fn'.limit, Len(stored)))
       IN fn'.res = [i \in 1..Len(last) |->
                       [role |-> messages[last[i]].role, content |-> messages[last[i]].content]]]_vars

\* ------------------------------------------------ _convert_messages_to_gemini
\* A text is a sequence of pieces; "\n" is the piece the merge puts between
\* two texts.
Texts == {<<"a">>, <<"b">>}

Turns == [role : {"user", "assistant", "system"}, content : Texts]

\* all sequences over S of length up to n
RECURSIVE SeqsUpTo(_, _)
SeqsUpTo(S, n) ==
  IF n = 0 THEN {<< >>}
  ELSE LET shorter == SeqsUpTo(S, n - 1)
       IN shorter \cup {Append(s, x) : s \in {t \in shorter : Len(t) = n - 1}, x \in S}

GeminiRole(role) ==
  IF role = "assistant" THEN "model"
  ELSE IF role = "system" THEN "user"
  ELSE role

\* the first loop: one content per message
Contents(msgs) ==
  [i \in 1..Len(msgs) |-> [role |-> GeminiRole(msgs[i].role), text |-> msgs[i].content]]

\* a merge that keeps every content apart
MergeInto_NeverMerges(merged, c) == Append(merged, c)

\* one turn of the second loop
MergeInto(merged, c) ==
  IF c.role = merged[Len(merged)].role
  THEN [merged EXCEPT ![Len(merged)].text = @ \o <<"\n">> \o c.text]
  ELSE Append(merged, c)

\* merged after the first k contents, k >= 1
RECURSIVE Merged(_, _)
Merged(contents, k) ==
  IF k = 1 THEN <<contents[1]>>
  ELSE MergeInto(Merged(contents, k - 1), contents[k])

convert_messages_to_gemini(msgs) ==
  LET contents == Contents(msgs)
  IN IF contents = << >> THEN contents
     ELSE LET merged == Merged(contents, Len(contents))
          IN IF merged[1].role = "model"
             THEN <<[role |-> "user", text |-> <<"Hello">>]>> \o merged
             ELSE merged

ConvertCall ==
  /\ fn.pc = "call" /\ fn.op = "convert"
  /\ fn' = [fn EXCEPT !.pc = "done", !.res = convert_messages_to_gemini(fn.arg)]
  /\ UNCHANGED <<keyVars, users, upd, mono, user_last, bc, fwd, messages, bot_stats>>

InitGemini ==
  /\ Booted([openrouter |-> << >>, gemini |-> <<1>>], 0, 0)
  /\ users = NoUsers /\ upd = IdleUpd /\ mono = MonoStart /\ user_last = NoLast /\ bc = IdleBc
  /\ fwd = NoLast /\ messages = << >> /\ bot_stats = << >>
  /\ \E msgs \in SeqsUpTo(Turns, MaxTurns) :
       fn = [pc |-> "call", op |-> "convert", arg |-> msgs, res |-> << >>]

NextGemini == ConvertCall

SpecGemini == InitGemini /\ [][NextGemini]_vars

\* the texts of s joined by newlines
RECURSIVE JoinLines(_)
JoinLines(s) ==
  IF s = << >> THEN << >>
  ELSE IF Len(s) = 1 THEN s[1]
  ELSE s[1] \o <<"\n">> \o JoinLines(Tail(s))

\* the role the provider knows a turn's role as
AsGemini(role) == IF role = "assistant" THEN "model" ELSE "user"

\* C19: the output for an empty list is empty; the output for any other list
\* starts with a user turn, has roles user and model only, never two
\* adjacent turns of the same role, one turn per run of adjacent input turns
\* of the same mapped role, in order and with the run's role, the texts of the
\* run joined by newlines, and before them a user turn "Hello" exactly when
\* the first input turn maps to model.
C19_GeminiTurns ==
  (fn.pc = "done" /\ fn.op = "convert") =>
    LET msgs == fn.arg
        out == fn.res
        hello == msgs # << >> /\ AsGemini(msgs[1].role) = "model"
        body == IF hello THEN Tail(out) ELSE out
        breaks == {i \in 1..(Len(msgs) - 1) : AsGemini(msgs[i].role) # AsGemini(msgs[i + 1].role)}
    IN /\ msgs = << >> => out = << >>
       /\ msgs # << >> =>
            /\ out # << >> /\ out[1].role = "user"
            /\ hello => out[1].text = <<"Hello">>
            /\ \A i \in 1..Len(out) : out[i].role \in {"user", "model"}
            /\ \A i \in 1..(Len(out) - 1) : out[i].role # out[i + 1].role
            /\ Len(body) = Cardinality(breaks) + 1
            /\ body[1].role = AsGemini(msgs[1].role)
            /\ JoinLines([i \in 1..Len(body) |-> body[i].text])
                 = JoinLines([i \in 1..Len(msgs) |-> msgs[i].content])
            /\ \A i \in 1..Len(body) : body[i].text[Len(body[i].text)] # "\n"

C19_Witness ==
  /\ fn.pc = "done" /\ fn.op = "convert"
  /\ Len(fn.arg) = 3
  /\ fn.arg[1].role = "assistant" /\ fn.arg[2].role = "system" /\ fn.arg[3].role = "user"
  /\ Len(fn.res) = 3
  /\ fn.res[1] = [role |-> "user", text |-> <<"Hello">>]
  /\ fn.res[3].role = "user" /\ fn.res[3].text = fn.arg[2].content \o <<"\n">> \o fn.arg[3].content

\* ---------------------------------------------------------- _classify_error
\* A text is a sequence of words, each in a letter case; between two words
\* of a phrase stands a blank.  A phrase of the code written with underscores
\* is one word.
Word(w) == [w |-> w, c |-> "lower"]

Phrase(ws) == [i \in 1..Len(ws) |-> Word(ws[i])]

rate_phrases ==
  {Phrase(<<"rate_limit_exceeded">>), Phrase(<<"rate", "limit">>), Phrase(<<"quota", "exceeded">>),
   Phrase(<<"resource_exhausted">>), Phrase(<<"resource", "has", "been", "exhausted">>),
   Phrase(<<"too", "many", "requests">>), Phrase(<<"limit", "reached">>),
   Phrase(<<"insufficient_quota">>), Phrase(<<"exceeded", "your", "current", "quota">>),
   Phrase(<<"requests", "per", "minute">>), Phrase(<<"tokens", "per", "minute">>)}

auth_phrases ==
  {Phrase(<<"invalid", "api", "key">>), Phrase(<<"invalid_api_key">>),
   Phrase(<<"api", "key", "not", "valid">>), Phrase(<<"api_key_invalid">>),
   Phrase(<<"permission", "denied">>), Phrase(<<"authentication", "failed">>)}

\* a lower() that leaves the text as it is
Lower_AsIs(text) == text

\* str.lower()
Lower(text) == [i \in 1..Len(text) |-> [text[i] EXCEPT !.c = "lower"]]

\* json.dumps of the payload {"error": {"message": text}}
JsonDumps(obj) ==
  <<Word("{"), Word("error"), Word("{"), Word("message")>> \o obj.message \o <<Word("}"), Word("}")>>

\* the text the phrases are looked up in
ErrorText(error_obj) ==
  IF error_obj.kind = "dict" THEN Lower(JsonDumps(error_obj)) ELSE Lower(error_obj.message)

\* phrase in text
In(phrase, text) ==
  \E k \in 0..(Len(text) - Len(phrase)) : SubSeq(text, k + 1, k + Len(phrase)) = phrase

is_rate_limit_error(error_obj) == \E phrase \in rate_phrases : In(phrase, ErrorText(error_obj))

is_auth_error(error_obj) == \E phrase \in auth_phrases : In(phrase, ErrorText(error_obj))

\* the exception raised, "None" for a plain return
classify_error(error_obj) ==
  IF is_rate_limit_error(error_obj) THEN "KeyExhaustedException"
  ELSE IF is_auth_error(error_obj) THEN "KeyAuthError"
  ELSE "None"

\* the pieces payloads are made of: every phrase, and words that are part
\* of no phrase or only a part of one
Chunks ==
  rate_phrases \cup auth_phrases
    \cup {Phrase(<<"server", "error">>), Phrase(<<"quota">>), Phrase(<<"api", "key">>)}

InCase(chunk, c) == [i \in 1..Len(chunk) |-> [chunk[i] EXCEPT !.c = c]]

\* the concatenations of up to n chunks, each in lower or in upper case
RECURSIVE Payloads(_)
Payloads(n) ==
  IF n = 0 THEN {<< >>}
  ELSE LET shorter == Payloads(n - 1)
       IN shorter \cup {s \o InCase(ch, c) : s \in shorter, ch \in Chunks, c \in {"lower", "upper"}}

ClassifyCall ==
  /\ fn.pc = "call" /\ fn.op = "classify"
  /\ fn' = [fn EXCEPT !.pc = "done", !.res = classify_error(fn.arg)]
  /\ UNCHANGED <<keyVars, users, upd, mono, user_last, bc, fwd, messages, bot_stats>>

InitClassify ==
  /\ Booted([openrouter |-> <<1>>, gemini |-> << >>], 0, 0)
  /\ users = NoUsers /\ upd = IdleUpd /\ mono = MonoStart /\ user_last = NoLast /\ bc = IdleBc
  /\ fwd = NoLast /\ messages = << >> /\ bot_stats = << >>
  /\ \E text \in Payloads(MaxChunks), kind \in {"str", "dict"} :
       fn = [pc |-> "call", op |-> "classify", arg |-> [kind |-> kind, message |-> text], res |-> "None"]

NextClassify == ClassifyCall

SpecClassify == InitClassify /\ [][NextClassify]_vars

\* the payload's message has the words of the phrase in a row, in whatever
\* letter case
Has(message, phrase) ==
  \E k \in 0..(Len(message) - Len(phrase)) :
    \A i \in 1..Len(phrase) : message[k + i].w = phrase[i].w

HasAny(message, phrases) == \E phrase \in phrases : Has(message, phrase)

\* C20 as stated: key-exhausted whenever the payload has a rate-limit
\* phrase, authentication failure whenever it has an authentication phrase,
\* nothing raised when it has neither.
C20_ClassifiedByEitherPhrase ==
  (fn.pc = "done" /\ fn.op = "classify") =>
    /\ HasAny(fn.arg.message, rate_phrases) => fn.res = "KeyExhaustedException"
    /\ HasAny(fn.arg.message, auth_phrases) => fn.res = "KeyAuthError"
    /\ (~HasAny(fn.arg.message, rate_phrases) /\ ~HasAny(fn.arg.message, auth_phrases)) =>
         fn.res = "None"

\* C20: key-exhausted whenever the payload, string or object, has a
\* rate-limit phrase in any letter case; authentication failure when it has
\* an authentication phrase and no rate-limit phrase; nothing raised when it
\* has neither.
C20_RateLimitFirst ==
  (fn.pc = "done" /\ fn.op = "classify") =>
    fn.res = (IF HasAny(fn.arg.message, rate_phrases) THEN "KeyExhaustedException"
              ELSE IF HasAny(fn.arg.message, auth_phrases) THEN "KeyAuthError"
              ELSE "None")

C20_Witness ==
  /\ fn.pc = "done" /\ fn.op = "classify" /\ fn.arg.kind = "dict"
  /\ fn.arg.message = InCase(Phrase(<<"permission", "denied">>), "lower")
                        \o InCase(Phrase(<<"quota", "exceeded">>), "upper")
  /\ fn.res = "KeyExhaustedException"

\* -------------------------------------------------------------- users table
\* UPDATE users SET total_messages = total_messages + 1, last_active = ...
increment_user_messages(tbl, u, t) ==
  [x \in DOMAIN tbl |->
     IF x = u THEN [tbl[x] EXCEPT !.total_messages = @ + 1, !.last_active = DbNow(t)] ELSE tbl[x]]

\* UPDATE users SET selected_provider = ?, selected_model = ?
set_user_model(tbl, u, provider, model) ==
  [x \in DOMAIN tbl |->
     IF x = u THEN [tbl[x] EXCEPT !.selected_provider = provider, !.selected_model = model]
     ELSE tbl[x]]

\* the last call on the users table
UserCall(op, u) == [pc |-> "done", op |-> op, user_id |-> u]

UpsertUser(u, username, first_name) ==
  /\ users' = upsert_user(users, u, username, first_name, now)
  /\ fn' = UserCall("upsert_user", u)
  /\ UNCHANGED <<keyVars, upd, mono, user_last, bc, fwd, messages, bot_stats>>

SetBan(u, banned) ==
  /\ users' = set_ban(users, u, banned)
  /\ fn' = UserCall("set_ban", u)
  /\ UNCHANGED <<keyVars, upd, mono, user_last, bc, fwd, messages, bot_stats>>

IncrementUserMessages(u) ==
  /\ u \in DOMAIN users => users[u].total_messages < MaxMessages
  /\ users' = increment_user_messages(users, u, now)
  /\ fn' = UserCall("increment_user_messages", u)
  /\ UNCHANGED <<keyVars, upd, mono, user_last, bc, fwd, messages, bot_stats>>

SetUserModel(u, provider, model) ==
  /\ users' = set_user_model(users, u, provider, model)
  /\ fn' = UserCall("set_user_model", u)
  /\ UNCHANGED <<keyVars, upd, mono, user_last, bc, fwd, messages, bot_stats>>

InitUsers ==
  /\ Booted([openrouter |-> <<1>>, gemini |-> << >>], 0, 0)
  /\ BotBooted

NextUsers ==
  \/ \E u \in ChatUsers, names \in {<<"ann", "Ann">>, <<None, "Anna">>} :
       UpsertUser(u, names[1], names[2])
  \/ \E u \in ChatUsers, banned \in BOOLEAN : SetBan(u, banned)
  \/ \E u \in ChatUsers : IncrementUserMessages(u)
  \/ \E u \in ChatUsers : SetUserModel(u, "gemini", "gemini-flash")
  \/ Tick

SpecUsers == InitUsers /\ [][NextUsers]_vars

\* C21: upsert_user on an id that has a row changes, in that row, nothing
\* but username, first_name and last_active, and changes no other row; on an
\* id without a row it adds one row, with the defaults of the table, and
\* changes no other row.
C21_UpsertKeepsTheRest ==
  [][(fn'.pc = "done" /\ fn'.op = "upsert_user" /\ users' # users) =>
       LET u == fn'.user_id
       IN /\ DOMAIN users' = DOMAIN users \cup {u}
          /\ \A x \in DOMAIN users : x # u => users'[x] = users[x]
          /\ IF u \in DOMAIN users
             THEN /\ users'[u].created_at = users[u].created_at
                  /\ users'[u].is_banned = users[u].is_banned
                  /\ users'[u].total_messages = users[u].total_messages
                  /\ users'[u].selected_provider = users[u].selected_provider
                  /\ users'[u].selected_model = users[u].selected_model
             ELSE /\ ~users'[u].is_banned /\ users'[u].total_messages = 0
                  /\ users'[u].created_at = users'[u].last_active
                  /\ users'[u].selected_provider = None /\ users'[u].selected_model = None]_vars

C21_Witness ==
  /\ fn.pc = "done" /\ fn.op = "upsert_user" /\ fn.user_id = 3
  /\ 3 \in DOMAIN users /\ users[3].is_banned /\ users[3].total_messages = 1
  /\ users[3].selected_model = "gemini-flash"
  /\ users[3].username = None /\ users[3].first_name = "Anna"
  /\ users[3].last_active > users[3].created_at
  /\ users[3].last_active = DbNow(now)

\* -------------------------------------------------------------- daily stats
\* the calendar date of a time, as the number of the day
DateOf(t) == t \div (TicksPerSecond * SecondsPerDay)

\* date.today(): the date of the process's time zone, here UTC
utc_offset == 0
Today(t) == DateOf(t + utc_offset)

\* the rows that date(created_at) = day selects
RowsOfDay(tbl, day) == {i \in 1..Len(tbl) : DateOf(tbl[i].created_at) = day}

get_messages_today(tbl, t) == Cardinality(RowsOfDay(tbl, Today(t)))

\* COUNT(DISTINCT user_id) of the day's rows
UniqueUsers(tbl, day) == Cardinality({tbl[i].user_id : i \in RowsOfDay(tbl, day)})

RECURSIVE SumMs(_, _)
SumMs(tbl, S) ==
  IF S = {} THEN 0
  ELSE LET i == CHOOSE x \in S : TRUE IN tbl[i].response_time_ms + SumMs(tbl, S \ {i})

\* round(AVG(response_time_ms) or 0.0, 1) over the rows of date('now') that
\* have a response time, in tenths of a millisecond
get_avg_response_time(tbl, t) ==
  LET S == {i \in RowsOfDay(tbl, DateOf(t)) : tbl[i].response_time_ms # NULL}
      n == Cardinality(S)
  IN IF n = 0 THEN 0 ELSE (20 * SumMs(tbl, S) + n) \div (2 * n)

\* a plain INSERT on a table without the UNIQUE constraint
UpsertStats_Append(tbl, row) == Append(tbl, row)

\* INSERT INTO bot_stats ... ON CONFLICT(date) DO UPDATE SET the aggregates
UpsertStats(tbl, row) ==
  IF \E i \in 1..Len(tbl) : tbl[i].date = row.date
  THEN [i \in 1..Len(tbl) |-> IF tbl[i].date = row.date THEN row ELSE tbl[i]]
  ELSE Append(tbl, row)

\* update_daily_stats, await by await; nth counts, for stating properties
\* only, the calls on the date that the call read first (2 for two or more)
StatsToday ==
  /\ fn.pc \in {"idle", "done"}
  /\ fn' = [pc |-> "count", op |-> "update_daily_stats", today |-> Today(now),
            messages_today |-> 0, unique_today |-> 0, avg_time |-> 0,
            nth |-> IF fn.pc = "done" /\ fn.today = Today(now) THEN 2 ELSE 1]
  /\ UNCHANGED <<keyVars, users, upd, mono, user_last, bc, fwd, messages, bot_stats>>

StatsCount ==
  /\ fn.pc = "count"
  /\ fn' = [fn EXCEPT !.pc = "unique", !.messages_today = get_messages_today(messages, now)]
  /\ UNCHANGED <<keyVars, users, upd, mono, user_last, bc, fwd, messages, bot_stats>>

StatsUnique ==
  /\ fn.pc = "unique"
  /\ fn' = [fn EXCEPT !.pc = "avg", !.unique_today = UniqueUsers(messages, fn.today)]
  /\ UNCHANGED <<keyVars, users, upd, mono, user_last, bc, fwd, messages, bot_stats>>

StatsAvg ==
  /\ fn.pc = "avg"
  /\ fn' = [fn EXCEPT !.pc = "insert", !.avg_time = get_avg_response_time(messages, now)]
  /\ UNCHANGED <<keyVars, users, upd, mono, user_last, bc, fwd, messages, bot_stats>>

StatsInsert ==
  /\ fn.pc = "insert"
  /\ bot_stats' = UpsertStats(bot_stats, [date |-> fn.today, total_requests |-> fn.messages_today,
                                          unique_users |-> fn.unique_today,
                                          avg_response_time |-> fn.avg_time])
  /\ fn' = [fn EXCEPT !.pc = "done"]
  /\ UNCHANGED <<keyVars, users, upd, mono, user_last, bc, fwd, messages>>

\* a turn is saved while the stats are refreshed or between two refreshes
StatsSaveMessage(user_id, role, response_time_ms) ==
  /\ Len(messages) < MaxStatRows
  /\ messages' = save_message(messages, user_id, role, response_time_ms, now)
  /\ UNCHANGED <<keyVars, users, upd, mono, user_last, bc, fn, fwd, bot_stats>>

InitStats ==
  /\ Booted([openrouter |-> <<1>>, gemini |-> << >>], 0, 0)
  /\ BotBooted

NextStats ==
  \/ StatsToday
  \/ StatsCount
  \/ StatsUnique
  \/ StatsAvg
  \/ StatsInsert
  \/ \E u \in ChatUsers : StatsSaveMessage(u, "user", NULL)
  \/ \E u \in ChatUsers, ms \in {100, 300} : StatsSaveMessage(u, "assistant", ms)
  \/ Tick

SpecStats == InitStats /\ [][NextStats]_vars

\* C22: bot_stats never holds two rows of one date, and once a call of
\* update_daily_stats is through, the row of the date the call worked for
\* holds the aggregates that this call computed.
C22_OneRowPerDate ==
  /\ \A i, j \in 1..Len(bot_stats) : bot_stats[i].date = bot_stats[j].date => i = j
  /\ (fn.pc = "done" /\ fn.op = "update_daily_stats") =>
       \E i \in 1..Len(bot_stats) :
         bot_stats[i] = [date |-> fn.today, total_requests |-> fn.messages_today,
                         unique_users |-> fn.unique_today, avg_response_time |-> fn.avg_time]

C22_Witness ==
  /\ fn.pc = "done" /\ fn.op = "update_daily_stats" /\ fn.nth = 2
  /\ Len(bot_stats) = 2
  /\ bot_stats[2].date = Today(now) /\ bot_stats[2].date = fn.today
  /\ bot_stats[2].total_requests = 1 /\ bot_stats[2].unique_users = 1
  /\ bot_stats[2].avg_response_time = 3000
  /\ bot_stats[1].total_requests = 1 /\ bot_stats[1].avg_response_time = 0

\* ------------------------------------------------------------ free-text chat
\* A text is its runs of one character: <<[ch |-> "a", n |-> 3]>> is "aaa".
\* No run is empty and no two neighbours have the same character, so that
\* equal texts are equal values.
Run(ch, n) == [ch |-> ch, n |-> n]

Whitespace == {" ", "\n"}
Ellipsis == <<Run("ELLIPSIS", 1)>>
Cursor == <<Run(" ", 1), Run("BLOCK", 1)>>

\* a + b
Concat(a, b) ==
  IF a = << >> THEN b
  ELSE IF b = << >> THEN a
  ELSE IF a[Len(a)].ch = b[1].ch
       THEN SubSeq(a, 1, Len(a) - 1) \o <<Run(b[1].ch, a[Len(a)].n + b[1].n)>> \o Tail(b)
       ELSE a \o b

\* len(a)
RECURSIVE TextLen(_)
TextLen(a) == IF a = << >> THEN 0 ELSE a[1].n + TextLen(Tail(a))

\* a[:k]
RECURSIVE Take(_, _)
Take(a, k) ==
  IF k <= 0 \/ a = << >> THEN << >>
  ELSE IF a[1].n <= k THEN <<a[1]>> \o Take(Tail(a), k - a[1].n)
  ELSE <<Run(a[1].ch, k)>>

RECURSIVE LStrip(_)
LStrip(a) == IF a # << >> /\ a[1].ch \in Whitespace THEN LStrip(Tail(a)) ELSE a

RECURSIVE RStrip(_)
RStrip(a) ==
  IF a # << >> /\ a[Len(a)].ch \in Whitespace THEN RStrip(SubSeq(a, 1, Len(a) - 1)) ELSE a

\* a.strip()
Strip(a) == RStrip(LStrip(a))

\* the cap cuts one character early and adds nothing
Display_CutShort(full_response) ==
  IF TextLen(full_response) >= display_limit
  THEN Take(full_response, display_limit - 1)
  ELSE full_response

\* display = full_response; if len(display) > 4000: display = display[:4000] + "..."
Display(full_response) ==
  IF TextLen(full_response) > display_limit
  THEN Concat(Take(full_response, display_limit), Ellipsis)
  ELSE full_response

\* the answer is kept whatever it is
Answered_Always(full_response) == TRUE

\* if full_response.strip():
Answered(full_response) == Strip(full_response) # << >>

\* 1.5 seconds between two edits of the placeholder, in ticks
EditIntervalTicks == (3 * TicksPerSecond) \div 2

\* int((time.monotonic() - start_time) * 1000)
ElapsedMs(t, start_time) == ((t - start_time) * 1000) \div TicksPerSecond

\* the context manager: the user's provider and model, the configured ones
\* when the user chose none
default_provider == "openrouter"
default_model == "google/gemini-2.0-flash-exp:free"

get_user_model(tbl, user_id) ==
  IF user_id \in DOMAIN tbl /\ tbl[user_id].selected_model # None
  THEN <<tbl[user_id].selected_provider, tbl[user_id].selected_model>>
  ELSE <<default_provider, default_model>>

add_user_message(tbl, user_id, t) == save_message(tbl, user_id, "user", NULL, t)

add_assistant_message(tbl, user_id, response_time_ms, t) ==
  save_message(tbl, user_id, "assistant", response_time_ms, t)

get_messages_for_request(tbl, user_id) == get_context(tbl, user_id, max_context_messages)

\* what the answer of the AI client arrives in, and what it fails with
Fragments == {<<Run(" ", 1)>>, <<Run("a", display_limit - 1)>>, <<Run("b", 2)>>}
\* how a stream_response call fails (its results, and a defect of the client)
\* and the exception the caller sees: the timeout of the session is raised as
\* an AiError with a text of its own
StreamFailures == {"AllKeysExhaustedError", "AiError", "AiError_timeout", "RuntimeError"}

StreamRaises(failure) == IF failure = "AiError_timeout" THEN "AiError" ELSE failure
\* what a send or an edit of the platform fails with
PlatformError == "TelegramAPIError"

\* the except clause an exception of the try block lands in
Notice(exc) ==
  CASE exc = "AllKeysExhaustedError" -> "exhausted"
    [] exc = "AiError" -> "ai_error"
    [] exc = "TimeoutError" -> "timeout"
    [] OTHER -> "unexpected"

NothingShown == [kind |-> "none", text |-> << >>, of |-> << >>]

\* handle_message up to its first await; a text of whitespace only returns
HmEnter(user_id, blank) ==
  /\ fn.pc = "idle"
  /\ Len(messages) < MaxStored
  /\ fn' = [pc |-> IF blank THEN "returned" ELSE "get_user_model",
            op |-> "handle_message", user_id |-> user_id, blank |-> blank,
            provider |-> None, model |-> None, context |-> << >>,
            start_time |-> 0, full_response |-> << >>, last_edit_time |-> 0, t |-> 0,
            elapsed_ms |-> 0, n |-> 0, stream |-> "none", shown |-> NothingShown,
            exc |-> None, failure |-> None, before |-> Len(messages), last_attempt |-> NULL]
  /\ UNCHANGED <<keyVars, users, upd, mono, user_last, bc, fwd, messages, bot_stats>>

HmGetUserModel ==
  /\ fn.pc = "get_user_model"
  /\ LET pm == get_user_model(users, fn.user_id)
     IN fn' = [fn EXCEPT !.pc = "add_user_message", !.provider = pm[1], !.model = pm[2]]
  /\ UNCHANGED <<keyVars, users, upd, mono, user_last, bc, fwd, messages, bot_stats>>

HmAddUserMessage ==
  /\ fn.pc = "add_user_message"
  /\ messages' = add_user_message(messages, fn.user_id, now)
  /\ fn' = [fn EXCEPT !.pc = "get_messages_for_request"]
  /\ UNCHANGED <<keyVars, users, upd, mono, user_last, bc, fwd, bot_stats>>

HmGetMessages ==
  /\ fn.pc = "get_messages_for_request"
  /\ \E res \in get_messages_for_request(messages, fn.user_id) :
       fn' = [fn EXCEPT !.pc = "answer", !.context = res]
  /\ UNCHANGED <<keyVars, users, upd, mono, user_last, bc, fwd, messages, bot_stats>>

\* thinking_msg = await message.answer(...), outside the try block
HmAnswer(ok) ==
  /\ fn.pc = "answer"
  /\ fn' = IF ok
           THEN [fn EXCEPT !.pc = "stream", !.start_time = mono, !.stream = "open",
                           !.shown = [kind |-> "placeholder", text |-> << >>, of |-> << >>]]
           ELSE [fn EXCEPT !.pc = "raised", !.exc = PlatformError]
  /\ UNCHANGED <<keyVars, users, upd, mono, user_last, bc, fwd, messages, bot_stats>>

\* one turn of the async for: the fragment is added, and the placeholder is
\* edited when 1.5 s have passed since the last edit that went through;
\* last_attempt is, for stating properties only, the time of the last
\* edit_text call of the loop
HmChunk(chunk) ==
  /\ fn.pc = "stream"
  /\ fn.n < MaxFragments
  /\ LET full == Concat(fn.full_response, chunk)
         edits == mono - fn.last_edit_time >= EditIntervalTicks /\ Answered(full)
     IN fn' = [fn EXCEPT !.full_response = full, !.n = @ + 1, !.t = mono,
                         !.pc = IF edits THEN "edit_cursor" ELSE "stream",
                         !.last_attempt = IF edits THEN mono ELSE @]
  /\ UNCHANGED <<keyVars, users, upd, mono, user_last, bc, fwd, messages, bot_stats>>

\* await thinking_msg.edit_text(display + " ▌"); a failure is passed over
HmEditCursor(ok) ==
  /\ fn.pc = "edit_cursor"
  /\ fn' = IF ok
           THEN [fn EXCEPT !.pc = "stream", !.last_edit_time = fn.t,
                           !.shown = [kind |-> "intermediate",
                                      text |-> Concat(Display(fn.full_response), Cursor),
                                      of |-> fn.full_response]]
           ELSE [fn EXCEPT !.pc = "stream"]
  /\ UNCHANGED <<keyVars, users, upd, mono, user_last, bc, fwd, messages, bot_stats>>

\* the stream is through: the final edit, or the notice of an empty answer
HmStreamEnd ==
  /\ fn.pc = "stream"
  /\ fn' = [fn EXCEPT !.stream = "completed",
                      !.elapsed_ms = ElapsedMs(mono, fn.start_time),
                      !.pc = IF Answered(fn.full_response) THEN "edit_markdown" ELSE "edit_empty"]
  /\ UNCHANGED <<keyVars, users, upd, mono, user_last, bc, fwd, messages, bot_stats>>

\* the AI client raises, before or after fragments
HmStreamRaise(failure) ==
  /\ fn.pc = "stream"
  /\ fn' = [fn EXCEPT !.stream = "failed", !.pc = "except", !.exc = StreamRaises(failure),
                      !.failure = failure]
  /\ UNCHANGED <<keyVars, users, upd, mono, user_last, bc, fwd, messages, bot_stats>>

HmEditMarkdown(ok) ==
  /\ fn.pc = "edit_markdown"
  /\ fn' = IF ok
           THEN [fn EXCEPT !.pc = "add_assistant_message",
                           !.shown = [kind |-> "markdown", text |-> Display(fn.full_response),
                                      of |-> fn.full_response]]
           ELSE [fn EXCEPT !.pc = "edit_plain"]
  /\ UNCHANGED <<keyVars, users, upd, mono, user_last, bc, fwd, messages, bot_stats>>

HmEditPlain(ok) ==
  /\ fn.pc = "edit_plain"
  /\ fn' = IF ok
           THEN [fn EXCEPT !.pc = "add_assistant_message",
                           !.shown = [kind |-> "plain", text |-> Display(fn.full_response),
                                      of |-> fn.full_response]]
           ELSE [fn EXCEPT !.pc = "add_assistant_message"]
  /\ UNCHANGED <<keyVars, users, upd, mono, user_last, bc, fwd, messages, bot_stats>>

HmAddAssistantMessage ==
  /\ fn.pc = "add_assistant_message"
  /\ messages' = add_assistant_message(messages, fn.user_id, fn.elapsed_ms, now)
  /\ fn' = [fn EXCEPT !.pc = "returned"]
  /\ UNCHANGED <<keyVars, users, upd, mono, user_last, bc, fwd, bot_stats>>

\* the notice of an empty answer, inside the try block: its failure lands in
\* except Exception
HmEditEmpty(ok) ==
  /\ fn.pc = "edit_empty"
  /\ fn' = IF ok
           THEN [fn EXCEPT !.pc = "returned",
                           !.shown = [kind |-> "empty", text |-> << >>, of |-> fn.full_response]]
           ELSE [fn EXCEPT !.pc = "except", !.exc = PlatformError]
  /\ UNCHANGED <<keyVars, users, upd, mono, user_last, bc, fwd, messages, bot_stats>>

\* the edit of an except clause, which nothing guards
HmEditNotice(ok) ==
  /\ fn.pc = "except"
  /\ fn' = IF ok
           THEN [fn EXCEPT !.pc = "returned", !.exc = None,
                           !.shown = [kind |-> Notice(fn.exc), text |-> << >>,
                                      of |-> fn.full_response]]
           ELSE [fn EXCEPT !.pc = "raised", !.exc = PlatformError]
  /\ UNCHANGED <<keyVars, users, upd, mono, user_last, bc, fwd, messages, bot_stats>>

\* time.monotonic() moves on
ChatTick ==
  /\ mono < MonoStart + MaxChatElapsed
  /\ mono' = mono + 1
  /\ UNCHANGED <<keyVars, users, upd, user_last, bc, fn, fwd, messages, bot_stats>>

\* the sender has a row, as the registration middleware saw to, has chosen
\* a model or not, and has talked to the bot before or not
InitChat ==
  /\ Booted([openrouter |-> <<1>>, gemini |-> << >>], 0, 0)
  /\ upd = IdleUpd /\ mono = MonoStart /\ user_last = NoLast /\ bc = IdleBc
  /\ fn = NoCall /\ fwd = NoLast /\ bot_stats = << >>
  /\ messages \in {<< >>, add_assistant_message(add_user_message(<< >>, 1, BootTime - 1),
                                                 1, 500, BootTime - 1)}
  /\ \E chosen \in BOOLEAN :
       LET registered == [u \in {1} |-> NewUser("ann", "Ann", BootTime)]
       IN users = IF chosen THEN set_user_model(registered, 1, "gemini", "gemini-1.5-flash")
                  ELSE registered

NextChat ==
  \/ \E blank \in BOOLEAN : HmEnter(1, blank)
  \/ HmGetUserModel
  \/ HmAddUserMessage
  \/ HmGetMessages
  \/ \E ok \in BOOLEAN : HmAnswer(ok)
  \/ \E chunk \in Fragments : HmChunk(chunk)
  \/ \E ok \in BOOLEAN : HmEditCursor(ok)
  \/ HmStreamEnd
  \/ \E failure \in StreamFailures : HmStreamRaise(failure)
  \/ \E ok \in BOOLEAN : HmEditMarkdown(ok)
  \/ \E ok \in BOOLEAN : HmEditPlain(ok)
  \/ HmAddAssistantMessage
  \/ \E ok \in BOOLEAN : HmEditEmpty(ok)
  \/ \E ok \in BOOLEAN : HmEditNotice(ok)
  \/ ChatTick

SpecChat == InitChat /\ [][NextChat]_vars

\* the cap as the sentence has it
Capped(text) ==
  IF TextLen(text) <= display_limit THEN text
  ELSE Take(text, display_limit) \o Ellipsis

AddedTurns == [i \in 1..(Len(messages) - fn.before) |-> messages[fn.before + i]]

\* C29: once the AI client is called the user turn is stored; an assistant
\* turn is only ever stored after the user turn, with a stream that ended
\* without error and an answer that is not blank; and when handle_message is
\* over, the assistant turn is stored exactly in that case.
C29_AssistantTurnOnlyOnAnswer ==
  fn.pc # "idle" =>
    /\ Len(AddedTurns) <= 2
    /\ fn.stream # "none" =>
         /\ Len(AddedTurns) >= 1
         /\ AddedTurns[1].user_id = fn.user_id /\ AddedTurns[1].role = "user"
    /\ Len(AddedTurns) = 2 =>
         /\ AddedTurns[2].user_id = fn.user_id /\ AddedTurns[2].role = "assistant"
         /\ fn.stream = "completed"
         /\ Strip(fn.full_response) # << >>
    /\ fn.pc \in {"returned", "raised"} =>
         (Len(AddedTurns) = 2 <=> fn.stream = "completed" /\ Strip(fn.full_response) # << >>)

C29_Witness ==
  /\ fn.pc = "returned" /\ fn.stream = "completed" /\ fn.n = 2
  /\ fn.shown.kind = "intermediate"
  /\ Len(AddedTurns) = 2
  /\ AddedTurns[1].role = "user" /\ AddedTurns[2].role = "assistant"
  /\ AddedTurns[2].response_time_ms = 1000

\* C30: no exception leaves handle_message.
C30_NoExceptionEscapes == fn.pc # "raised"

\* --------------------------------------------------- one answer per call
\* C24 as stated: once a stream_response call has yielded a fragment it
\* acquires no further key and sends no further HTTP request, so that all its
\* fragments come from one response.
C24_OneResponsePerCall ==
  [][\A r \in Requests :
       req[r].yielded /\ req'[r].yielded =>
         /\ req'[r].http = req[r].http
         /\ req'[r].acquired = req[r].acquired]_vars

\* ------------------------------------------------- serialized mark_* calls
\* what an earlier run of the bot left in the store: nothing, or key 2 marked
\* exhausted longer ago than the cooldown
LeftExhausted(h) ==
  [NewRow("openrouter") EXCEPT !.status = "exhausted", !.last_exhausted = 0, !.exhausted_count = 1]

PriorStores == {EmptyTable, [h \in {2} |-> LeftExhausted(h)]}

\* the state after on_startup on such a store
InitLock ==
  /\ \E prev \in PriorStores :
       LET cfg == [openrouter |-> <<1, 2>>, gemini |-> << >>]
       IN /\ config = cfg
          /\ api_keys = InitializeStore(cfg, prev)
          /\ keys = InitializeKeys(cfg, InitializeStore(cfg, prev))
          /\ hist = [h \in KeysOf(cfg) |-> [err |-> FALSE]]
  /\ budget = [calls |-> LockCalls, toggles |-> LockToggles]
  /\ now = BootTime
  /\ current_index = [p \in Providers |-> 0]
  /\ locks = [p \in Providers |-> "free"]
  /\ req = [r \in Requests |-> IdleReq]
  /\ admin = IdleAdmin
  /\ rec = IdleRec
  /\ restarts = 0
  /\ acqLog = [p \in Providers |-> << >>]
  /\ BotBooted

NextLock ==
  \/ \E r \in Requests, p \in Providers : ReqStart(r, p)
  \/ \E r \in Requests : ReqGetKey(r)
  \/ \E r \in Requests, resp \in KeyResponses : ReqPost(r, resp)
  \/ \E r \in Requests : ReqMarkMem(r)
  \/ \E r \in Requests : ReqMarkDb(r)
  \/ \E r \in Requests : ReqRaiseAll(r)
  \/ \E r \in Requests : ReqReturn(r)
  \/ \E status \in {"exhausted", "active"}, h \in KeysOf(config) : AdminMarkMem(status, h)
  \/ AdminMarkDb
  \/ RecWake
  \/ RecDb
  \/ RecMem

SpecLock == InitLock /\ [][NextLock]_vars

\* the mark_* call that holds the lock of provider p: its key and its target
MarkCall(p) ==
  IF locks[p] = "admin" THEN [key |-> admin.key, status |-> admin.status]
  ELSE [key |-> req[locks[p]].key, status |-> MarkStatus(req[locks[p]])]

\* the store rows of provider p keep their status in this step, but for row h
StoreStatusKept(p, h) ==
  \A x \in DOMAIN api_keys :
    api_keys[x].provider = p /\ x # h => api_keys'[x].status = api_keys[x].status

\* the in-memory half is done and the store's is not: nothing takes or marks
\* a key of p in memory, and the call's store update writes the target status
\* of its key, after which memory and store agree on it
MarkCallAlone(p) ==
  /\ keys'[p] = keys[p]
  /\ current_index'[p] = current_index[p]
  /\ locks'[p] = "free" =>
       LET c == MarkCall(p)
       IN FirstMatch(keys[p], c.key) # 0 =>
            /\ keys'[p][FirstMatch(keys[p], c.key)].status = c.status
            /\ api_keys'[c.key].status = c.status
            /\ StoreStatusKept(p, c.key)

\* C25 as stated: between the in-memory update and the store update of a
\* mark_* call nothing else changes a status of the provider, in memory or in
\* the store, and no key of it is acquired; at the return, memory and store
\* hold the target status.
C25_NothingInterleaves ==
  [][\A p \in Providers :
       locks[p] # "free" /\ restarts' = restarts =>
         /\ MarkCallAlone(p)
         /\ locks'[p] # "free" => StoreStatusKept(p, 0)]_vars

\* C25: between the two updates of a mark_* call no other mark_* call, no
\* get_key and no in-memory recovery of the provider takes place, and at the
\* return memory and store hold the target status; the store statuses of the
\* provider change in between by nothing but reset_exhausted_keys of the
\* recovery loop, which does not take the lock.
C25_SerializedUnderLock ==
  [][\A p \in Providers :
       locks[p] # "free" /\ restarts' = restarts =>
         /\ MarkCallAlone(p)
         /\ locks'[p] # "free" =>
              \/ StoreStatusKept(p, 0)
              \/ /\ rec.pc = "db" /\ ProviderOrder[rec.pi] = p
                 /\ api_keys' = reset_exhausted_keys(api_keys, p, key_cooldown_minutes, now)]_vars

C25_Witness ==
  /\ admin.pc = "mark_db" /\ locks[admin.provider] = "admin"
  /\ MemStatus(admin.key) = admin.status
  /\ api_keys[admin.key].status # admin.status
  /\ rec.pc = "mem" /\ ProviderOrder[rec.pi] = admin.provider
  /\ \E r \in Requests : req[r].pc = "get_key" /\ req[r].provider = admin.provider

\* ------------------------------------------------- memory against the store
\* no mark_* call is between its two updates and the recovery loop sleeps
Quiescent == (\A p \in Providers : locks[p] = "free") /\ rec.pc = "sleep"

\* C26: whenever no key-manager operation and no recovery-loop iteration is
\* in progress, a key that is active in memory is active in the store, so
\* that get_key hands out no key the store holds as exhausted or error.
C26_ActiveInMemoryIsActiveInStore ==
  Quiescent =>
    \A p \in Providers : \A i \in 1..Len(keys[p]) :
      keys[p][i].status = "active" => api_keys[keys[p][i].key_hash].status = "active"

\* ------------------------------------------------------- the rotation index
\* successful get_key calls for provider p so far
Acquired(p) == IF fn.pc = "idle" THEN 0 ELSE fn.acquired[p]

\* get_key for provider p, the call kept with what it found: the index and
\* the active keys before it, and the number of earlier successful calls
IndexGetKey(p) ==
  LET got == get_key(keys[p], current_index[p])
  IN /\ Unlocked(p)
     /\ Acquired(p) < MaxAcquisitions
     /\ current_index' = [current_index EXCEPT ![p] = got.index]
     /\ fn' = [pc |-> "done", op |-> "get_key", provider |-> p, key |-> got.key,
               index |-> current_index[p], active |-> ActiveKeys(keys[p]),
               earlier |-> Acquired(p),
               acquired |-> [q \in Providers |->
                               IF q = p /\ got.key # 0 THEN Acquired(q) + 1 ELSE Acquired(q)]]
     /\ UNCHANGED <<config, now, keys, locks, api_keys, req, admin, rec, restarts, budget, hist,
                  acqLog, users, upd, mono, user_last, bc, fwd, messages, bot_stats>>

InitIndex == Booted([openrouter |-> <<1, 2, 3>>, gemini |-> <<4>>], 0, RRMarks) /\ BotBooted

NextIndex ==
  \/ \E p \in Providers : IndexGetKey(p)
  \/ \E status \in {"exhausted", "error", "active"}, h \in KeysOf(config) : RRMark(status, h)

SpecIndex == InitIndex /\ [][NextIndex]_vars

Configs ==
  {[openrouter |-> <<1, 2>>, gemini |-> << >>],
   [openrouter |-> <<1>>, gemini |-> <<2>>],
   [openrouter |-> <<1>>, gemini |-> <<1>>]}

InitStartup == (\E cfg \in Configs : Booted(cfg, 0, RRMarks)) /\ BotBooted

\* keys are marked, time passes, and the bot is started again
NextStartup ==
  \/ \E status \in {"exhausted", "error", "active"}, h \in KeysOf(config) : RRMark(status, h)
  \/ Tick
  \/ Restart

SpecStartup == InitStartup /\ [][NextStartup]_vars

\* C28: after initialize every configured key has its record in the store,
\* every in-memory entry has the status of the record of its hash, and the
\* records that were there before are as they were.
C28_InitializeResumes ==
  [][restarts' # restarts =>
       /\ \A h \in KeysOf(config) : h \in DOMAIN api_keys'
       /\ \A p \in Providers : \A i \in 1..Len(keys'[p]) :
            keys'[p][i].status = api_keys'[keys'[p][i].key_hash].status
       /\ \A h \in DOMAIN api_keys : api_keys'[h] = api_keys[h]]_vars

\* C31: when the AI request timed out, the notice the user gets is the one
\* for a timeout.
C31_TimeoutNotice ==
  (fn.pc = "returned" /\ fn.op = "handle_message" /\ fn.failure = "AiError_timeout")
    => fn.shown.kind = "timeout"

\* C32: when a POST of an attempt ends in an API error that is neither a
\* rate limit nor an authentication failure, stream_response ends with that
\* error at once: the call acquires no further key and sends no further HTTP
\* request, and no key's status changes, in memory or in the store.
C32_UnclassifiedFailsAtOnce ==
  [][\A r \in Requests :
       /\ (req[r].pc = "post" /\ req'[r].signal = "AiError") =>
            /\ req'[r].pc = "done"
            /\ req'[r].result = "AiError"
            /\ req'[r].acquired = req[r].acquired
            /\ req'[r].http = req[r].http + 1
            /\ keys' = keys /\ api_keys' = api_keys
       /\ (req[r].pc = "done" /\ req[r].result = "AiError" /\ req'[r] # req[r]) =>
            /\ req'[r] = IdleReq
            /\ keys' = keys /\ api_keys' = api_keys]_vars

C32_Witness ==
  \E r \in Requests :
    /\ req[r].pc = "done" /\ req[r].result = "AiError" /\ req[r].signal = "AiError"
    /\ req[r].attempt = 1 /\ req[r].acquired = 2 /\ req[r].http = 2
    /\ MemStatus(1) = "exhausted" /\ MemStatus(2) = "active"
    /\ api_keys[2].status = "active"

\* ------------------------------------------------- requests per provider call
\* the step in which a POST of call r is answered
Posted(r) == req[r].pc = "post" /\ req'[r].http = req[r].http + 1

\* C33: a provider call sends at most 3 HTTP requests for its key: it sends
\* another one only after fewer than 3, signals server error only when the
\* third has failed, and signals a rate limit or an authentication failure
\* with the response that carries it, whichever request that is; one
\* stream_response call sends at most 15 requests.
C33_ThreeRequestsPerKey ==
  /\ [](\A r \in Requests :
          /\ req[r].retry <= max_retries - 1
          /\ req[r].http <= max_retries * max_key_attempts
          /\ req[r].http <= max_retries * (req[r].attempt + 1))
  /\ [][\A r \in Requests :
          Posted(r) =>
            /\ (req'[r].pc = "post") =>
                 /\ req[r].retry < max_retries - 1
                 /\ req'[r].retry = req[r].retry + 1
                 /\ req'[r].key = req[r].key
            /\ (req'[r].signal = "ServerError") =>
                 /\ req[r].retry = max_retries - 1
                 /\ req'[r].pc = "sleep"
            /\ (req'[r].signal \in {"KeyExhaustedException", "KeyAuthError"}) =>
                 /\ req'[r].retry = req[r].retry
                 /\ req'[r].pc = "mark"]_vars

C33_Witness ==
  \E r \in Requests :
    /\ req[r].pc = "done" /\ req[r].result = "AllKeysExhaustedError"
    /\ req[r].http = max_retries * max_key_attempts
    /\ req[r].acquired = max_key_attempts
    /\ ~req[r].yielded

\* C34: when a provider call ends in server error, stream_response leaves
\* every key's status as it is and is at the acquisition of the next attempt
\* (or, with no attempt left, at its end) right away, without a sleep of its
\* own in between.
C34_NextAttemptWithoutDelay ==
  [][\A r \in Requests :
       (Posted(r) /\ req'[r].signal = "ServerError") =>
         /\ keys' = keys /\ api_keys' = api_keys
         /\ req'[r].pc \in {"get_key", "raise_all"}]_vars

\* ------------------------------------------------------------ cb_set_model
\* MODEL_MAP of the callbacks module, by the short id of the callback data
ModelMap ==
  [or1 |-> <<"openrouter", "google/gemini-2.0-flash-exp:free">>,
   gm1 |-> <<"gemini", "gemini-2.0-flash">>]

ShortIds == {"or1", "gm1", "zz9"}

Selection(u) == <<users[u].selected_provider, users[u].selected_model>>

\* cb_set_model up to its first await: an unknown short id is answered with
\* an alert
SmEnter(u, short_id) ==
  /\ fn.pc \in {"idle", "done"}
  /\ fn' = [pc |-> IF short_id \in DOMAIN ModelMap THEN "has_active_keys" ELSE "done",
            op |-> "cb_set_model", user_id |-> u, short_id |-> short_id,
            alert |-> IF short_id \in DOMAIN ModelMap THEN None ELSE "not_found",
            before |-> Selection(u)]
  /\ UNCHANGED <<keyVars, users, upd, mono, user_last, bc, fwd, messages, bot_stats>>

\* has_keys = await key_manager.has_active_keys(provider), under the lock
SmHasActiveKeys ==
  LET p == ModelMap[fn.short_id][1]
  IN /\ fn.pc = "has_active_keys" /\ fn.op = "cb_set_model"
     /\ Unlocked(p)
     /\ fn' = [fn EXCEPT !.pc = IF has_active_keys(p) THEN "set_user_model"
                                ELSE "get_all_keys_status"]
     /\ UNCHANGED <<keyVars, users, upd, mono, user_last, bc, fwd, messages, bot_stats>>

\* all_keys = await key_manager.get_all_keys_status(provider), and the alert
SmAllKeysStatus ==
  LET p == ModelMap[fn.short_id][1]
  IN /\ fn.pc = "get_all_keys_status"
     /\ fn' = [fn EXCEPT !.pc = "done",
                         !.alert = IF keys[p] = << >> THEN "not_configured" ELSE "unavailable"]
     /\ UNCHANGED <<keyVars, users, upd, mono, user_last, bc, fwd, messages, bot_stats>>

\* await context_manager.set_user_model(...), then the edit and the answer
SmSetUserModel ==
  LET pm == ModelMap[fn.short_id]
  IN /\ fn.pc = "set_user_model" /\ fn.op = "cb_set_model"
     /\ users' = set_user_model(users, fn.user_id, pm[1], pm[2])
     /\ fn' = [fn EXCEPT !.pc = "done", !.alert = "chosen"]
     /\ UNCHANGED <<keyVars, upd, mono, user_last, bc, fwd, messages, bot_stats>>

\* the user has a row, as the callback registration saw to
InitModel ==
  /\ \E cfg \in Configs : Booted(cfg, 0, RRMarks)
  /\ users = [u \in {1} |-> NewUser("ann", "Ann", BootTime)]
  /\ upd = IdleUpd /\ mono = MonoStart /\ user_last = NoLast /\ bc = IdleBc
  /\ fn = NoCall /\ fwd = NoLast /\ messages = << >> /\ bot_stats = << >>

NextModel ==
  \/ \E short_id \in ShortIds : SmEnter(1, short_id)
  \/ SmHasActiveKeys
  \/ SmAllKeysStatus
  \/ SmSetUserModel
  \/ \E status \in {"exhausted", "error", "active"}, h \in KeysOf(config) : RRMark(status, h)

SpecModel == InitModel /\ [][NextModel]_vars

\* C35: cb_set_model changes the stored selection only to the model of a
\* known short id, and only after its check found an active key of the
\* provider; an unknown short id, a provider without keys and a provider
\* whose keys are all inactive at the check are answered with their alerts
\* and leave the selection as it was.
C35_SelectionOnlyWithActiveKey ==
  /\ [](fn.pc = "done" =>
          /\ fn.alert = "not_found" <=> fn.short_id \notin DOMAIN ModelMap
          /\ fn.alert \in {"not_found", "not_configured", "unavailable"} =>
               Selection(fn.user_id) = fn.before
          /\ fn.alert = "not_configured" => keys[ModelMap[fn.short_id][1]] = << >>
          /\ fn.alert = "unavailable" => keys[ModelMap[fn.short_id][1]] # << >>
          /\ fn.alert = "chosen" => Selection(fn.user_id) = ModelMap[fn.short_id])
  /\ [][/\ users' # users => fn.pc = "set_user_model" /\ fn'.alert = "chosen"
        /\ (fn.pc = "has_active_keys" /\ fn' # fn) =>
             LET ks == keys[ModelMap[fn.short_id][1]]
             IN (fn'.pc = "set_user_model") <=> \E i \in 1..Len(ks) : ks[i].status = "active"]_vars

C35_Witness ==
  /\ fn.pc = "done" /\ fn.op = "cb_set_model" /\ fn.alert = "unavailable"
  /\ fn.short_id = "or1"
  /\ fn.before = ModelMap["gm1"] /\ Selection(1) = fn.before

\* ---------------------------------------------------------------- shutdown
\* asyncio.Task.cancel(): the request is met at the await the task is
\* suspended in; a task that is done takes no request
cancel(task) == IF task.pc = "done" THEN task ELSE [task EXCEPT !.cancel = TRUE]

\* a caller that goes on without waiting for the task to end
Awaited_NoWait(task) == TRUE

\* `await task` returns, or raises the CancelledError that the caller
\* passes over, once the task is done
Awaited(task) == task.pc = "done"

\* the row update_daily_stats writes
DailyStats(tbl, t) ==
  [date |-> Today(t), total_requests |-> get_messages_today(tbl, t),
   unique_users |-> UniqueUsers(tbl, Today(t)), avg_response_time |-> get_avg_response_time(tbl, t)]

\* the bot is polling: stats_task and the recovery task run, the AI session
\* and the store are open; refreshed counts, for stating properties only,
\* the calls of update_daily_stats that on_shutdown made
Polling ==
  [pc |-> "polling", op |-> "shutdown",
   stats_task |-> [pc |-> "sleep", cancel |-> FALSE, ended |-> None],
   recovery_task |-> [pc |-> "running", cancel |-> FALSE, ended |-> None],
   session |-> "open", store |-> "open", refreshed |-> 0]

ShutdownVars == <<config, now, keys, current_index, locks, req, admin, restarts, budget, hist,
                  acqLog, users, upd, mono, user_last, bc, fwd, messages>>

\* stats_updater: asyncio.sleep(600) is over
StWake ==
  /\ fn.stats_task.pc = "sleep" /\ ~fn.stats_task.cancel
  /\ fn' = [fn EXCEPT !.stats_task.pc = "refresh"]
  /\ UNCHANGED <<ShutdownVars, api_keys, rec, bot_stats>>

\* update_daily_stats returns, or raises and the loop logs the error and
\* sleeps a minute
StRefresh(ok) ==
  /\ fn.stats_task.pc = "refresh" /\ ~fn.stats_task.cancel
  /\ bot_stats' = IF ok THEN UpsertStats(bot_stats, DailyStats(messages, now)) ELSE bot_stats
  /\ fn' = [fn EXCEPT !.stats_task.pc = IF ok THEN "sleep" ELSE "backoff"]
  /\ UNCHANGED <<ShutdownVars, api_keys, rec>>

StBackoffOver ==
  /\ fn.stats_task.pc = "backoff" /\ ~fn.stats_task.cancel
  /\ fn' = [fn EXCEPT !.stats_task.pc = "sleep"]
  /\ UNCHANGED <<ShutdownVars, api_keys, rec, bot_stats>>

\* CancelledError at the await the task is suspended in: inside the try the
\* loop breaks and the task returns, in the except handler's sleep the
\* error leaves the task
StCancelled ==
  /\ fn.stats_task.pc # "done" /\ fn.stats_task.cancel
  /\ fn' = [fn EXCEPT !.stats_task.pc = "done",
                      !.stats_task.ended = IF fn.stats_task.pc = "backoff" THEN "cancelled"
                                           ELSE "returned"]
  /\ UNCHANGED <<ShutdownVars, api_keys, rec, bot_stats>>

\* the recovery loop runs until it is cancelled
RecoveryRuns == fn.recovery_task.pc = "running" /\ ~fn.recovery_task.cancel

ShRecWake == RecoveryRuns /\ RecWake
ShRecDb == RecoveryRuns /\ RecDb
ShRecMem == RecoveryRuns /\ RecMem

\* _recovery_loop: CancelledError at an await inside the try breaks the
\* loop
RecCancelled ==
  /\ fn.recovery_task.pc = "running" /\ fn.recovery_task.cancel
  /\ fn' = [fn EXCEPT !.recovery_task.pc = "done", !.recovery_task.ended = "returned"]
  /\ UNCHANGED <<ShutdownVars, api_keys, rec, bot_stats>>

\* updates are handled while the bot is polling
ShMark(status, h) == fn.pc = "polling" /\ RRMark(status, h)

\* shutdown_handler: stats_task.cancel()
ShCancelStats ==
  /\ fn.pc = "polling"
  /\ fn' = [fn EXCEPT !.pc = "await_stats", !.stats_task = cancel(@)]
  /\ UNCHANGED <<ShutdownVars, api_keys, rec, bot_stats>>

\* await stats_task
ShAwaitStats ==
  /\ fn.pc = "await_stats" /\ Awaited(fn.stats_task)
  /\ fn' = [fn EXCEPT !.pc = "notify"]
  /\ UNCHANGED <<ShutdownVars, api_keys, rec, bot_stats>>

\* on_shutdown: the admins are told, a failed send is passed over
ShNotify ==
  /\ fn.pc = "notify"
  /\ fn' = [fn EXCEPT !.pc = "stop_recovery"]
  /\ UNCHANGED <<ShutdownVars, api_keys, rec, bot_stats>>

\* stop_recovery_loop: cancel
ShCancelRecovery ==
  /\ fn.pc = "stop_recovery"
  /\ fn' = [fn EXCEPT !.pc = "await_recovery", !.recovery_task = cancel(@)]
  /\ UNCHANGED <<ShutdownVars, api_keys, rec, bot_stats>>

\* stop_recovery_loop: await
ShAwaitRecovery ==
  /\ fn.pc = "await_recovery" /\ Awaited(fn.recovery_task)
  /\ fn' = [fn EXCEPT !.pc = "close_session"]
  /\ UNCHANGED <<ShutdownVars, api_keys, rec, bot_stats>>

\* ai_client.close()
ShCloseSession ==
  /\ fn.pc = "close_session"
  /\ fn' = [fn EXCEPT !.pc = "final_stats", !.session = "closed"]
  /\ UNCHANGED <<ShutdownVars, api_keys, rec, bot_stats>>

\* database.update_daily_stats()
ShFinalStats ==
  /\ fn.pc = "final_stats"
  /\ bot_stats' = UpsertStats(bot_stats, DailyStats(messages, now))
  /\ fn' = [fn EXCEPT !.pc = "close_store", !.refreshed = @ + 1]
  /\ UNCHANGED <<ShutdownVars, api_keys, rec>>

\* database.close()
ShCloseStore ==
  /\ fn.pc = "close_store"
  /\ fn' = [fn EXCEPT !.pc = "complete", !.store = "closed"]
  /\ UNCHANGED <<ShutdownVars, api_keys, rec, bot_stats>>

InitShutdown ==
  /\ Booted([openrouter |-> <<1>>, gemini |-> <<2>>], 0, RRMarks)
  /\ users = NoUsers /\ upd = IdleUpd /\ mono = MonoStart /\ user_last = NoLast /\ bc = IdleBc
  /\ fn = Polling /\ fwd = NoLast /\ messages = << >> /\ bot_stats = << >>

NextShutdown ==
  \/ StWake
  \/ \E ok \in BOOLEAN : StRefresh(ok)
  \/ StBackoffOver
  \/ StCancelled
  \/ ShRecWake
  \/ ShRecDb
  \/ ShRecMem
  \/ RecCancelled
  \/ \E status \in {"exhausted", "active"}, h \in KeysOf(config) : ShMark(status, h)
  \/ ShCancelStats
  \/ ShAwaitStats
  \/ ShNotify
  \/ ShCancelRecovery
  \/ ShAwaitRecovery
  \/ ShCloseSession
  \/ ShFinalStats
  \/ ShCloseStore
  \/ Tick

SpecShutdown == InitShutdown /\ [][NextShutdown]_vars

\* C36: when the AI session is closed, the stats task and the recovery
\* loop are both done; on_shutdown refreshes the stats once, with the
\* session closed and the store still open; the store is closed after that
\* refresh; and with the store closed no background loop takes a step and
\* neither table is written.
C36_LoopsEndBeforeClose ==
  /\ [](fn.session = "closed" => fn.stats_task.pc = "done" /\ fn.recovery_task.pc = "done")
  /\ [](fn.refreshed <= 1 /\ (fn.refreshed = 1 => fn.session = "closed"))
  /\ [](fn.store = "closed" => fn.session = "closed" /\ fn.refreshed = 1)
  /\ [][(fn.refreshed' # fn.refreshed) => fn.store = "open" /\ fn'.store = "open"]_vars
  /\ [][fn.store = "closed" =>
          /\ rec' = rec /\ fn' = fn
          /\ api_keys' = api_keys /\ bot_stats' = bot_stats]_vars

\* the store is closed after a shutdown that met the stats task in its
\* minute after an error and the recovery loop before its in-memory update
C36_Witness ==
  /\ fn.pc = "complete" /\ fn.store = "closed" /\ fn.session = "closed"
  /\ fn.stats_task.ended = "cancelled" /\ fn.recovery_task.ended = "returned"
  /\ rec.pc = "mem"
  /\ Len(bot_stats) = 2

\* --------------------------------------------------- the middleware chain
\* C37: an update is at its handler only after it entered, in this order,
\* logging, user registration and throttle when it is a message, and
\* logging and callback registration when it is a callback query.
C37_StagesBeforeHandler ==
  upd.pc = "handler" =>
    upd.stages = IF upd.kind = "message"
                 THEN <<"LoggingMiddleware", "UserRegistrationMiddleware", "ThrottleMiddleware">>
                 ELSE <<"LoggingMiddleware", "CallbackRegistrationMiddleware">>

\* ------------------------------------------------ edits while streaming
\* C38: an edit of the placeholder in the streaming loop is attempted no
\* sooner than 1.5 s after the previous attempt, whether that one went
\* through or failed.
C38_EditAttemptsSpaced ==
  [][(fn.pc = "stream" /\ fn'.pc = "edit_cursor" /\ fn.last_attempt # NULL)
       => mono - fn.last_attempt >= EditIntervalTicks]_vars

\* ------------------------------------------------- the throttle's state
\* C39: the throttle leaves _user_last as it is when it drops a message;
\* it changes the sender's entry alone, to the time of the message, and
\* only when it passes the message on; and a message that comes at least
\* the limit after the sender's last forwarded one is passed on, whatever
\* was dropped in between.
C39_DropLeavesStateUnchanged ==
  [][(upd.pc = "throttle" /\ upd' # upd) =>
       /\ upd'.outcome = "dropped" => user_last' = user_last
       /\ user_last' # user_last => upd'.pc = "handler" /\ user_last'[upd.user] = mono
       /\ DOMAIN user_last' \subseteq DOMAIN user_last \cup {upd.user}
       /\ \A u \in DOMAIN user_last :
            u # upd.user => u \in DOMAIN user_last' /\ user_last'[u] = user_last[u]
       /\ (upd.user \in DOMAIN fwd /\ mono - fwd[upd.user] >= RateLimitTicks)
            => upd'.pc = "handler"]_vars

\* a message of user 3 is dropped half a second after the forwarded one,
\* after a message of user 1 was forwarded in between
C39_Witness ==
  /\ upd.pc = "done" /\ upd.outcome = "dropped" /\ upd.user = 3
  /\ 3 \in DOMAIN user_last /\ 1 \in DOMAIN user_last
  /\ user_last[3] = mono - 1 /\ user_last[1] = mono

\* ------------------------------------------------ the exhaustion counter
\* C40: a step adds one to a key's exhausted_count when the row goes from
\* active to exhausted and leaves the count as it is otherwise, and a step
\* on a row that is exhausted or error leaves last_exhausted as it is.
C40_CountsEpisodes ==
  [][\A h \in DOMAIN api_keys :
       h \in DOMAIN api_keys' =>
         /\ api_keys'[h].exhausted_count =
              api_keys[h].exhausted_count
                + (IF api_keys[h].status = "active" /\ api_keys'[h].status = "exhausted"
                   THEN 1 ELSE 0)
         /\ api_keys[h].status \in {"exhausted", "error"}
              => api_keys'[h].last_exhausted = api_keys[h].last_exhausted]_vars
====
